---- MODULE Spec2Model ----
(***************************************************************************)
(* Model of the portfolio website's two core services:                     *)
(*   AuthService    (src/src/services/AuthService.ts)                      *)
(*   ContentManager (src/src/services/ContentManager.ts, with the helpers  *)
(*                   of utils/dataHelpers, src/unnamed/part_009)           *)
(* Both keep their persistent state in the browser's localStorage.         *)
(***************************************************************************)
EXTENDS Integers, Sequences, FiniteSets, TLC

VARIABLES
    now,           \* Date.now(), milliseconds since the start of the run
    localStorage,  \* key -> <<>> (getItem gives null) or <<value>>
    config,        \* AuthService.config
    pending,       \* authenticate calls suspended at `await hashPassword`
    ret,           \* what the AuthService call made at this instant returned
    cache,         \* ContentManager.cache: <<>> (null) or <<document>>
    cmRet,         \* what the last ContentManager call returned or threw
    loads,         \* the loadContent calls made step by step: their fetches
                   \* as they settle and, once resolved, the document returned
    ui             \* the React state of AuthContext, AppContext and App

vars == <<now, localStorage, config, pending, ret, cache, cmRet, loads, ui>>

authVars == <<now, config, pending, ret>>

-----------------------------------------------------------------------------
(* Bounds of the model                                                     *)

\* The clock runs over MaxQuarters quarters of an hour.
MaxQuarters == 2

\* The authenticate calls that may be suspended at the digest at once.
MaxInFlight == 2

-----------------------------------------------------------------------------
(* localStorage                                                            *)

STORAGE_KEY == "portfolio_auth_session"
ATTEMPTS_KEY == "portfolio_auth_attempts"
LOCKOUT_KEY == "portfolio_auth_lockout"
DATA_KEY == "portfolio_data"

EmptyStorage ==
    [k \in {STORAGE_KEY, ATTEMPTS_KEY, LOCKOUT_KEY, DATA_KEY} |-> <<>>]

getItem(ls, k) == ls[k]
setItem(ls, k, v) == [ls EXCEPT ![k] = <<v>>]
removeItem(ls, k) == [ls EXCEPT ![k] = <<>>]

-----------------------------------------------------------------------------
(* Number <-> string conversions.  A string is a sequence of characters.   *)

Digits == <<"0", "1", "2", "3", "4", "5", "6", "7", "8", "9",
            "a", "b", "c", "d", "e", "f">>

RECURSIVE NumToString(_, _)
\* Number.prototype.toString(radix) of a non-negative integer
NumToString(n, radix) ==
    IF n < radix THEN <<Digits[n + 1]>>
    ELSE Append(NumToString(n \div radix, radix), Digits[(n % radix) + 1])

DigitValue ==
    [c \in {Digits[i] : i \in 1..16} |-> CHOOSE d \in 0..15 : Digits[d + 1] = c]

RECURSIVE ParseDigits(_, _, _)
ParseDigits(s, radix, acc) ==
    IF s = <<>> THEN acc
    ELSE IF DigitValue[Head(s)] >= radix THEN acc
    ELSE ParseDigits(Tail(s), radix, acc * radix + DigitValue[Head(s)])

\* parseInt(s, radix) of a string of digits (the longest prefix of digits
\* of the radix is read).  Only applied to non-empty digit strings here.
parseInt(s, radix) == ParseDigits(s, radix, 0)

\* String.prototype.padStart(len, ch)
RECURSIVE padStart(_, _, _)
padStart(s, len, ch) == IF Len(s) >= len THEN s ELSE padStart(<<ch>> \o s, len, ch)

\* Math.ceil(a / b) for b > 0; Math.ceil of a fraction in (-1, 0] is 0.
CeilDiv(a, b) == IF a >= 0 THEN (a + b - 1) \div b ELSE -((-a) \div b)

Max(a, b) == IF a >= b THEN a ELSE b

-----------------------------------------------------------------------------
(* AuthService: constants and configuration                                *)

MINUTE == 60000
QUARTER_HOUR == 900000

DefaultConfig ==
    [sessionTimeout |-> 30 * 60 * 1000,
     maxLoginAttempts |-> 5,
     lockoutDuration |-> 15 * 60 * 1000]

\* The partial configurations handed to updateConfig.
ConfigUpdates ==
    { [sessionTimeout |-> 60 * 60 * 1000, maxLoginAttempts |-> 3] }

\* updateConfig: { ...this.config, ...newConfig }
mergeConfig(cfg, newConfig) ==
    [f \in DOMAIN cfg |-> IF f \in DOMAIN newConfig THEN newConfig[f] ELSE cfg[f]]

\* The instants the clock is read at: each quarter of an hour, a minute
\* after it, and the millisecond after each of these.
TimePoints ==
    { f + m * MINUTE + q * QUARTER_HOUR :
        f \in {0, 1}, m \in {0, 1}, q \in 0..MaxQuarters }

Passwords == {"admin123", "wrongpassword"}

\* SHA-256 digests are 32 bytes.
DIGEST_BYTES == 32

\* crypto.subtle.digest as the tests provide it: the digest of "admin123"
\* is 32 bytes of 227 (0xe3), any other text gives 32 bytes of 123 (0x7b).
Digest(text) ==
    [i \in 1..DIGEST_BYTES |-> IF text = "admin123" THEN 227 ELSE 123]

RECURSIVE Join(_)
Join(ss) == IF ss = <<>> THEN <<>> ELSE Head(ss) \o Join(Tail(ss))

\* hashPassword: the digest's bytes in hexadecimal, two characters a byte.
hashPassword(password) ==
    LET hashArray == Digest(password)
    IN Join([i \in 1..Len(hashArray) |->
                padStart(NumToString(hashArray[i], 16), 2, "0")])

PASSWORD_HASH == [i \in 1..64 |-> IF i % 2 = 1 THEN "e" ELSE "3"]

\* The hash of each password the callers try, computed once.
hashedPassword == [password \in Passwords |-> hashPassword(password)]

-----------------------------------------------------------------------------
(* Return values                                                           *)

MSG_NONE == ""
MSG_TRY_AGAIN == "Too many failed attempts. Try again in ${remainingTime} minutes."
MSG_LOCKED == "Too many failed attempts. Account locked for 15 minutes."
MSG_INVALID == "Invalid password. ${remainingAttempts} attempts remaining."
MSG_TECHNICAL == "Authentication failed due to technical error."

\* op: the method; ok: the boolean it returned (success, isLockedOut, ...);
\* msg: the error text; val: the number in the result.
Ret(op, ok, msg, val) == [op |-> op, ok |-> ok, msg |-> msg, val |-> val]

NoRet == Ret("none", FALSE, MSG_NONE, 0)

-----------------------------------------------------------------------------
(* AuthService: private methods, as functions of the store and the clock   *)

\* A stored session: the JSON text of an AuthSession.  parses = FALSE
\* stands for a text JSON.parse rejects.
SessionJson(isAuth, loginTime, expiresAt) ==
    [parses |-> TRUE, isAuthenticated |-> isAuth,
     loginTime |-> loginTime, expiresAt |-> expiresAt]

\* isLockedOut(): the value returned
isLockedOut(ls, t) ==
    LET lockoutData == getItem(ls, LOCKOUT_KEY)
    IN IF lockoutData = <<>> THEN FALSE
       ELSE t < parseInt(lockoutData[1], 10)

\* Mutant: an expired lockout is removed, the attempt counter is kept.
isLockedOutStore_keepsAttempts(ls, t) ==
    LET lockoutData == getItem(ls, LOCKOUT_KEY)
    IN IF lockoutData = <<>> THEN ls
       ELSE IF t < parseInt(lockoutData[1], 10) THEN ls
       ELSE removeItem(ls, LOCKOUT_KEY)

\* isLockedOut(): the store it leaves
isLockedOutStore(ls, t) ==
    LET lockoutData == getItem(ls, LOCKOUT_KEY)
    IN IF lockoutData = <<>> THEN ls
       ELSE IF t < parseInt(lockoutData[1], 10) THEN ls
       ELSE removeItem(removeItem(ls, LOCKOUT_KEY), ATTEMPTS_KEY)

\* Mutant: the stored counter is never read back.
getFailedAttempts_ignoresStore(ls) == 0

getFailedAttempts(ls) ==
    LET attempts == getItem(ls, ATTEMPTS_KEY)
    IN IF attempts = <<>> \/ attempts[1] = <<>> THEN 0
       ELSE parseInt(attempts[1], 10)

\* Mutant: the lockout starts one failure late (> for >=).
incrementFailedAttempts_late(ls, cfg, t) ==
    LET attempts == getFailedAttempts(ls) + 1
        ls1 == setItem(ls, ATTEMPTS_KEY, NumToString(attempts, 10))
    IN IF attempts > cfg.maxLoginAttempts
       THEN setItem(ls1, LOCKOUT_KEY, NumToString(t + cfg.lockoutDuration, 10))
       ELSE ls1

incrementFailedAttempts(ls, cfg, t) ==
    LET attempts == getFailedAttempts(ls) + 1
        ls1 == setItem(ls, ATTEMPTS_KEY, NumToString(attempts, 10))
    IN IF attempts >= cfg.maxLoginAttempts
       THEN setItem(ls1, LOCKOUT_KEY, NumToString(t + cfg.lockoutDuration, 10))
       ELSE ls1

clearFailedAttempts(ls) ==
    removeItem(removeItem(ls, ATTEMPTS_KEY), LOCKOUT_KEY)

\* Mutant: logout also forgets the failed attempts and the lockout.
logoutStore_clearsAll(ls) ==
    removeItem(removeItem(removeItem(ls, STORAGE_KEY), ATTEMPTS_KEY), LOCKOUT_KEY)

logoutStore(ls) == removeItem(ls, STORAGE_KEY)

\* getSession(): TRUE iff it returns a session rather than null
hasSession(ls, t) ==
    LET sessionData == getItem(ls, STORAGE_KEY)
    IN /\ sessionData # <<>>
       /\ sessionData[1].parses
       /\ ~(t > sessionData[1].expiresAt)

\* Mutant: a record that does not parse is left in the store.
getSessionStore_keepsCorrupt(ls, t) ==
    LET sessionData == getItem(ls, STORAGE_KEY)
    IN IF sessionData = <<>> THEN ls
       ELSE IF ~sessionData[1].parses THEN ls
       ELSE IF t > sessionData[1].expiresAt THEN logoutStore(ls)
       ELSE ls

\* getSession(): the store it leaves (an expired or unparseable session is
\* removed through logout())
getSessionStore(ls, t) ==
    LET sessionData == getItem(ls, STORAGE_KEY)
    IN IF sessionData = <<>> THEN ls
       ELSE IF ~sessionData[1].parses THEN logoutStore(ls)
       ELSE IF t > sessionData[1].expiresAt THEN logoutStore(ls)
       ELSE ls

\* getSession(): the session returned, when hasSession
getSession(ls, t) == getItem(ls, STORAGE_KEY)[1]

\* Mutant: the session expires after lockoutDuration, not sessionTimeout.
createSession_wrongTimeout(ls, cfg, t) ==
    setItem(ls, STORAGE_KEY, SessionJson(TRUE, t, t + cfg.lockoutDuration))

createSession(ls, cfg, t) ==
    setItem(ls, STORAGE_KEY, SessionJson(TRUE, t, t + cfg.sessionTimeout))

-----------------------------------------------------------------------------
(* AuthService: public methods                                             *)

\* Time passes; ret holds the value returned at the present instant only.
Tick(t) ==
    /\ t > now
    /\ now' = t
    /\ ret' = NoRet
    /\ UNCHANGED <<localStorage, config, pending, cache, cmRet, loads, ui>>

RemoveAt(s, i) == SubSeq(s, 1, i - 1) \o SubSeq(s, i + 1, Len(s))

\* Mutant: the remaining minutes are rounded down.
authenticateLockedRet_floor(ls, t) ==
    LET lockoutData == getItem(ls, LOCKOUT_KEY)
        lockoutUntil == IF lockoutData # <<>> THEN parseInt(lockoutData[1], 10) ELSE 0
    IN Ret("authenticate", FALSE, MSG_TRY_AGAIN, (lockoutUntil - t) \div MINUTE)

\* authenticate(), lines 163-172: the caller is locked out.
authenticateLockedRet(ls, t) ==
    LET lockoutData == getItem(ls, LOCKOUT_KEY)
        lockoutUntil == IF lockoutData # <<>> THEN parseInt(lockoutData[1], 10) ELSE 0
        remainingTime == CeilDiv(lockoutUntil - t, MINUTE)
    IN Ret("authenticate", FALSE, MSG_TRY_AGAIN, remainingTime)

AuthenticateLocked(password) ==
    /\ isLockedOut(localStorage, now)
    /\ UNCHANGED <<now, config, pending, cache, cmRet, loads, ui>>
    /\ localStorage' = isLockedOutStore(localStorage, now)
    /\ ret' = authenticateLockedRet(localStorage, now)

\* authenticate(), lines 163-175: not locked out, the call suspends at
\* `await this.hashPassword(password)`.  inFlight bounds the calls that may
\* be suspended at once.
AuthenticateBegin(password, inFlight) ==
    /\ Len(pending) < inFlight
    /\ pending' = Append(pending, password)
    /\ UNCHANGED <<now, config, ret, cache, cmRet, loads, ui>>
    /\ ~isLockedOut(localStorage, now)
    /\ localStorage' = isLockedOutStore(localStorage, now)

\* authenticate(), lines 177-199: the store after the digest is compared
authenticateStore(ls, cfg, t, password) ==
    IF hashedPassword[password] = PASSWORD_HASH
    THEN createSession(clearFailedAttempts(ls), cfg, t)
    ELSE incrementFailedAttempts(ls, cfg, t)

\* authenticate(), lines 177-199: the value returned
authenticateRet(ls, cfg, t, password) ==
    IF hashedPassword[password] = PASSWORD_HASH
    THEN Ret("authenticate", TRUE, MSG_NONE, 0)
    ELSE LET remainingAttempts ==
                 cfg.maxLoginAttempts
                     - getFailedAttempts(incrementFailedAttempts(ls, cfg, t))
         IN IF remainingAttempts <= 0
            THEN Ret("authenticate", FALSE, MSG_LOCKED, 0)
            ELSE Ret("authenticate", FALSE, MSG_INVALID, remainingAttempts)

\* The digest resolves and the call runs to its return.
AuthenticateResolve(i) ==
    /\ i \in 1..Len(pending)
    /\ pending' = RemoveAt(pending, i)
    /\ UNCHANGED <<now, config, cache, cmRet, loads, ui>>
    /\ ret' = authenticateRet(localStorage, config, now, pending[i])
    /\ localStorage' = authenticateStore(localStorage, config, now, pending[i])

\* Mutant: a digest that fails is counted as a failed attempt.
AuthenticateDigestThrows_countsAttempt(i) ==
    /\ i \in 1..Len(pending)
    /\ pending' = RemoveAt(pending, i)
    /\ UNCHANGED <<now, config, cache, cmRet, loads, ui>>
    /\ localStorage' = incrementFailedAttempts(localStorage, config, now)
    /\ ret' = Ret("authenticate", FALSE, MSG_TECHNICAL, 0)

\* authenticate(), lines 200-206: hashPassword throws.
AuthenticateDigestThrows(i) ==
    /\ i \in 1..Len(pending)
    /\ pending' = RemoveAt(pending, i)
    /\ UNCHANGED <<now, localStorage, config, cache, cmRet, loads, ui>>
    /\ ret' = Ret("authenticate", FALSE, MSG_TECHNICAL, 0)

isAuthenticatedValue(ls, t) ==
    IF hasSession(ls, t) THEN getSession(ls, t).isAuthenticated ELSE FALSE

IsAuthenticated ==
    /\ localStorage' = getSessionStore(localStorage, now)
    /\ ret' = Ret("isAuthenticated", isAuthenticatedValue(localStorage, now),
                  MSG_NONE, 0)
    /\ UNCHANGED <<now, config, pending, cache, cmRet, loads, ui>>

\* Mutant: the time elapsed since the login is not taken off.
getSessionTimeRemainingValue_fromLogin(ls, t) ==
    IF ~hasSession(ls, t) THEN 0
    ELSE getSession(ls, t).expiresAt - getSession(ls, t).loginTime

getSessionTimeRemainingValue(ls, t) ==
    IF ~hasSession(ls, t) THEN 0
    ELSE Max(0, getSession(ls, t).expiresAt - t)

GetSessionTimeRemaining ==
    /\ localStorage' = getSessionStore(localStorage, now)
    /\ ret' = Ret("getSessionTimeRemaining", hasSession(localStorage, now),
                  MSG_NONE, getSessionTimeRemainingValue(localStorage, now))
    /\ UNCHANGED <<now, config, pending, cache, cmRet, loads, ui>>

extendSessionStore(ls, cfg, t) ==
    IF ~hasSession(ls, t) THEN getSessionStore(ls, t)
    ELSE setItem(ls, STORAGE_KEY,
                 [getSession(ls, t) EXCEPT !.expiresAt = t + cfg.sessionTimeout])

ExtendSession ==
    /\ localStorage' = extendSessionStore(localStorage, config, now)
    /\ ret' = Ret("extendSession", hasSession(localStorage, now), MSG_NONE, 0)
    /\ UNCHANGED <<now, config, pending, cache, cmRet, loads, ui>>

Logout ==
    /\ localStorage' = logoutStore(localStorage)
    /\ ret' = Ret("logout", FALSE, MSG_NONE, 0)
    /\ UNCHANGED <<now, config, pending, cache, cmRet, loads, ui>>

getLockoutInfoRet(ls, t) ==
    IF ~isLockedOut(ls, t) THEN Ret("getLockoutInfo", FALSE, MSG_NONE, 0)
    ELSE LET lockoutData == getItem(ls, LOCKOUT_KEY)
             lockoutUntil == parseInt(lockoutData[1], 10)
             remainingMinutes == CeilDiv(lockoutUntil - t, MINUTE)
         IN Ret("getLockoutInfo", TRUE, MSG_NONE, Max(0, remainingMinutes))

GetLockoutInfo ==
    /\ localStorage' = isLockedOutStore(localStorage, now)
    /\ ret' = getLockoutInfoRet(localStorage, now)
    /\ UNCHANGED <<now, config, pending, cache, cmRet, loads, ui>>

UpdateConfig(newConfig) ==
    /\ config' = mergeConfig(config, newConfig)
    /\ ret' = Ret("updateConfig", FALSE, MSG_NONE, 0)
    /\ UNCHANGED <<now, localStorage, pending, cache, cmRet, loads, ui>>

\* The interval of startSessionCleanup: getSession() drops an expired
\* session, so the logout() that follows has nothing left to remove.
SessionCleanup ==
    /\ localStorage' = getSessionStore(localStorage, now)
    /\ UNCHANGED <<now, config, pending, ret, cache, cmRet, loads, ui>>

-----------------------------------------------------------------------------
(* AuthService: the store failing                                          *)
(*                                                                         *)
(* localStorage throws in two ways: setItem throws when the quota is       *)
(* exceeded (QUOTA), and every access throws when storage is denied to the *)
(* page (DENIED).  A call that fails leaves the store as it was.  A method *)
(* that lets the store's exception out is recorded as returning it in msg. *)

STORE_EXCEPTION == "DOMException"

QUOTA == "quota"
DENIED == "denied"
StoreFaults == {QUOTA, DENIED}

Thrown(op) == Ret(op, FALSE, STORE_EXCEPTION, 0)

\* authenticate(), line 163: isLockedOut() reads the store before the try
\* block is entered.
AuthenticateStoreDenied(password) ==
    /\ ret' = Thrown("authenticate")
    /\ UNCHANGED <<now, localStorage, config, pending, cache, cmRet, loads, ui>>

\* authenticate(), lines 177-206, setItem throwing: createSession throws
\* after clearFailedAttempts, incrementFailedAttempts at its first write;
\* the catch block returns the technical error.
AuthenticateResolveQuota(i) ==
    /\ i \in 1..Len(pending)
    /\ pending' = RemoveAt(pending, i)
    /\ UNCHANGED <<now, config, cache, cmRet, loads, ui>>
    /\ ret' = Ret("authenticate", FALSE, MSG_TECHNICAL, 0)
    /\ localStorage' = IF hashedPassword[pending[i]] = PASSWORD_HASH
                       THEN clearFailedAttempts(localStorage)
                       ELSE localStorage

\* getSession(), lines 110-127: getItem throws inside the try block, and the
\* logout() of the catch block throws in its turn.
IsAuthenticatedStoreDenied ==
    /\ ret' = Thrown("isAuthenticated")
    /\ UNCHANGED <<now, localStorage, config, pending, cache, cmRet, loads, ui>>

GetSessionTimeRemainingStoreDenied ==
    /\ ret' = Thrown("getSessionTimeRemaining")
    /\ UNCHANGED <<now, localStorage, config, pending, cache, cmRet, loads, ui>>

\* extendSession(): DENIED, getSession() throws as above; QUOTA, getSession()
\* runs and the setItem of line 235 throws when there is a session to extend.
ExtendSessionStoreFails(fault) ==
    /\ ret' = IF fault = DENIED \/ hasSession(localStorage, now)
              THEN Thrown("extendSession")
              ELSE Ret("extendSession", FALSE, MSG_NONE, 0)
    /\ localStorage' = IF fault = DENIED THEN localStorage
                       ELSE getSessionStore(localStorage, now)
    /\ UNCHANGED <<now, config, pending, cache, cmRet, loads, ui>>

\* logout(), line 243
LogoutStoreDenied ==
    /\ ret' = Thrown("logout")
    /\ UNCHANGED <<now, localStorage, config, pending, cache, cmRet, loads, ui>>

\* getLockoutInfo(), line 264: isLockedOut() reads the store.
GetLockoutInfoStoreDenied ==
    /\ ret' = Thrown("getLockoutInfo")
    /\ UNCHANGED <<now, localStorage, config, pending, cache, cmRet, loads, ui>>

-----------------------------------------------------------------------------
(* JSON values of the content layer                                        *)
(*                                                                         *)
(* A section value is one of null, a string, a number, an array or an      *)
(* object ("absent": the document has no such key).  An object is a set of *)
(* <<field, value>> pairs, an array a sequence; the values inside are not  *)
(* taken apart by the services and are kept as opaque texts.               *)

JVal(k, o, a, s) == [k |-> k, o |-> o, a |-> a, s |-> s]

Absent == JVal("absent", {}, <<>>, "")
JNull == JVal("null", {}, <<>>, "")
JStr(s) == JVal("string", {}, <<>>, s)
JNum(s) == JVal("number", {}, <<>>, s)
JArr(a) == JVal("array", {}, a, "")
JObj(o) == JVal("object", o, <<>>, "")

\* The value of an optional field that is set to undefined.
UNDEFINED == "undefined"

\* JavaScript truthiness
Truthy(v) ==
    CASE v.k \in {"absent", "null"} -> FALSE
      [] v.k = "string" -> v.s # ""
      [] v.k = "number" -> v.s # "0"
      [] OTHER -> TRUE

\* typeof v
TypeOf(v) ==
    CASE v.k = "absent" -> "undefined"
      [] v.k = "string" -> "string"
      [] v.k = "number" -> "number"
      [] OTHER -> "object"

IsArray(v) == v.k = "array"

IndexKey(i) == NumToString(i - 1, 10)

\* The own enumerable properties an object spread copies from v.  The
\* strings of the model are at most one character long.
OwnProps(v) ==
    CASE v.k = "object" -> v.o
      [] v.k = "array" -> { <<IndexKey(i), v.a[i]>> : i \in 1..Len(v.a) }
      [] v.k = "string" -> IF v.s = "" THEN {} ELSE { <<IndexKey(1), v.s>> }
      [] OTHER -> {}

Keys(props) == { pr[1] : pr \in props }

\* { ...base, ...over }
Spread(base, over) ==
    JObj({ pr \in OwnProps(base) : pr[1] \notin Keys(OwnProps(over)) }
            \cup OwnProps(over))

SectionNames ==
    <<"profile", "projects", "resume", "certificates", "socialLinks", "config">>

Sections == { SectionNames[i] : i \in 1..Len(SectionNames) }

\* A JavaScript value at the top level of a document: its kind and, for an
\* object, its six sections.
Doc(pf, pj, rs, ce, so, cf) ==
    [top |-> "object",
     sec |-> [profile |-> pf, projects |-> pj, resume |-> rs,
              certificates |-> ce, socialLinks |-> so, config |-> cf]]

NoSections == [s \in Sections |-> Absent]

\* A top-level value that is no object with sections: null, "x", 5, [].
Scalar(kind) == [top |-> kind, sec |-> NoSections]

\* A text: valid = FALSE is a text JSON.parse throws a SyntaxError on.
Text(valid, value) == [valid |-> valid, value |-> value]

InvalidJson == Text(FALSE, Scalar("null"))

\* JSON.stringify(value, null, 2): properties whose value is undefined are
\* left out.
StringifyVal(v) ==
    IF v.k = "object"
    THEN JObj({ pr \in v.o : pr[2] # UNDEFINED })
    ELSE v

stringify(value) ==
    Text(TRUE, [top |-> value.top,
                sec |-> [s \in Sections |-> StringifyVal(value.sec[s])]])

\* JSON.parse(text), for a text it accepts
parse(text) == text.value

-----------------------------------------------------------------------------
(* utils/dataHelpers                                                       *)

createDefaultPortfolioData ==
    Doc(JObj({ <<"name", "">>, <<"title", "">>, <<"photo", "">>,
               <<"summary", "">>, <<"description", "">>, <<"location", "">>,
               <<"email", "">> }),
        JArr(<<>>),
        JObj({ <<"experience", "[]">>, <<"education", "[]">>,
               <<"skills", "[]">>, <<"downloadUrl", "">> }),
        JArr(<<>>),
        JArr(<<>>),
        JObj({ <<"theme", "auto">>, <<"language", "en">>,
               <<"analytics", "{enabled: false}">>,
               <<"seo", "{title: '', description: '', keywords: []}">> }))

\* The top-level property `name` of updates, undefined when updates has none
Prop(updates, name) ==
    IF updates.top = "object" THEN updates.sec[name] ELSE Absent

\* Mutant: the profile and the config are replaced like the other sections.
mergePortfolioData_replaceAll(existing, updates) ==
    [top |-> "object",
     sec |-> [s \in Sections |->
        IF Prop(updates, s).k # "absent"
        THEN Prop(updates, s)
        ELSE existing.sec[s]]]

mergePortfolioData(existing, updates) ==
    [top |-> "object",
     sec |-> [s \in Sections |->
        IF s \in {"profile", "config"}
        THEN IF Truthy(Prop(updates, s))
             THEN Spread(existing.sec[s], Prop(updates, s))
             ELSE existing.sec[s]
        ELSE IF Prop(updates, s).k # "absent"
             THEN Prop(updates, s)
             ELSE existing.sec[s]]]

-----------------------------------------------------------------------------
(* ContentManager: private methods                                         *)

\* What one fetch of loadJsonFile settled as: rejected (network error, a
\* status that is not ok, a body that is no JSON), or fulfilled with a value.
Rejected == [status |-> "rejected", value |-> Absent]
Fulfilled(v) == [status |-> "fulfilled", value |-> v]

\* loadDefaultData, given how the six fetches settled
loadDefaultData(settled) ==
    LET d == createDefaultPortfolioData
        ObjSection(s) ==
            IF settled[s].status = "fulfilled" /\ Truthy(settled[s].value)
            THEN Spread(d.sec[s], settled[s].value)
            ELSE d.sec[s]
        ArrSection(s) ==
            IF settled[s].status = "fulfilled" /\ IsArray(settled[s].value)
            THEN settled[s].value
            ELSE d.sec[s]
    IN [top |-> "object",
        sec |-> [s \in Sections |->
                    IF s \in {"profile", "resume", "config"}
                    THEN ObjSection(s) ELSE ArrSection(s)]]

\* loadLocalData(): <<>> for null, else <<the parsed record>>
loadLocalData(ls) ==
    LET storedData == getItem(ls, DATA_KEY)
    IN IF storedData = <<>> THEN <<>>
       ELSE IF ~storedData[1].valid THEN <<>>
       ELSE <<parse(storedData[1])>>

\* Mutant: a record that does not parse is left in the store.
loadLocalDataStore_keepsCorrupt(ls) == ls

\* loadLocalData(): the store it leaves (a record that does not parse is
\* removed)
loadLocalDataStore(ls) ==
    LET storedData == getItem(ls, DATA_KEY)
    IN IF storedData # <<>> /\ ~storedData[1].valid
       THEN removeItem(ls, DATA_KEY)
       ELSE ls

\* `localData ?` of loadContent: null and the falsy values 0 and "" (a
\* top-level string or number of the model is a truthy one)
TruthyTop(local) == local # <<>> /\ local[1].top # "null"

\* loadContent(): the document returned and cached
loadContentValue(settled, ls) ==
    LET defaultData == loadDefaultData(settled)
        localData == loadLocalData(ls)
    IN IF TruthyTop(localData)
       THEN mergePortfolioData(defaultData, localData[1])
       ELSE defaultData

MSG_NOT_OBJECT == "Invalid data: must be an object"
MSG_MISSING == "Invalid data: missing required property '${prop}'"
MSG_NOT_AN_OBJECT == "Invalid data: ${prop} must be an object"
MSG_NOT_AN_ARRAY == "Invalid data: ${prop} must be an array"
MSG_INVALID_JSON == "Invalid JSON data or structure"
MSG_SAVE_FAILED == "Failed to save content"
MSG_NOT_LOADED == "No content loaded. Call loadContent() first."

Err(msg, prop) == [msg |-> msg, prop |-> prop]
NoErr == Err("", "")

\* validatePortfolioData: the error thrown, NoErr when it returns
validatePortfolioData(data) ==
    LET missing == { i \in 1..Len(SectionNames) :
                        data.sec[SectionNames[i]].k = "absent" }
        first == CHOOSE i \in missing : \A j \in missing : i <= j
    IN IF data.top \in {"null", "string", "number"} THEN Err(MSG_NOT_OBJECT, "")
       ELSE IF missing # {} THEN Err(MSG_MISSING, SectionNames[first])
       ELSE IF TypeOf(data.sec["profile"]) # "object"
            THEN Err(MSG_NOT_AN_OBJECT, "profile")
       ELSE IF ~IsArray(data.sec["projects"])
            THEN Err(MSG_NOT_AN_ARRAY, "projects")
       ELSE IF TypeOf(data.sec["resume"]) # "object"
            THEN Err(MSG_NOT_AN_OBJECT, "resume")
       ELSE IF ~IsArray(data.sec["certificates"])
            THEN Err(MSG_NOT_AN_ARRAY, "certificates")
       ELSE IF ~IsArray(data.sec["socialLinks"])
            THEN Err(MSG_NOT_AN_ARRAY, "socialLinks")
       ELSE IF TypeOf(data.sec["config"]) # "object"
            THEN Err(MSG_NOT_AN_OBJECT, "config")
       ELSE NoErr

\* importContent: the error thrown, NoErr when it returns
importContentError(jsonData) ==
    IF ~jsonData.valid THEN Err(MSG_INVALID_JSON, "")
    ELSE validatePortfolioData(parse(jsonData))

-----------------------------------------------------------------------------
(* ContentManager: the values the environment and the callers supply       *)

\* What each static file holds when it is well formed.
StaticFiles ==
    [profile |-> JObj({ <<"name", "A">>, <<"title", "B">> }),
     projects |-> JArr(<<"p1", "p2">>),
     resume |-> JObj({ <<"downloadUrl", "/resume.pdf">> }),
     certificates |-> JArr(<<"c1">>),
     socialLinks |-> JArr(<<"s1">>),
     config |-> JObj({ <<"theme", "dark">> })]

\* What each static file holds when it is valid JSON of the wrong shape.
MalformedFiles ==
    [profile |-> JNull,
     projects |-> JObj({ <<"id", "p1">> }),
     resume |-> JNum("0"),
     certificates |-> JNull,
     socialLinks |-> JStr("x"),
     config |-> JStr("")]

\* How the six fetches can settle: any subset of them rejected and the
\* others fulfilled with the well-formed files, or all fulfilled with one
\* file malformed.
SettledSets ==
    { [s \in Sections |-> IF s \in failed THEN Rejected
                          ELSE Fulfilled(StaticFiles[s])] :
        failed \in SUBSET Sections }
    \cup
    { [s \in Sections |-> IF s = bad THEN Fulfilled(MalformedFiles[s])
                          ELSE Fulfilled(StaticFiles[s])] :
        bad \in Sections }

AllRejected == [s \in Sections |-> Rejected]

\* The local-edits records an earlier visit, another tab or the user may
\* have left in the store.
LocalRecords ==
    { InvalidJson,
      Text(TRUE, Doc(JObj({ <<"name", "C">> }), JArr(<<"p3">>),
                     Absent, Absent, Absent, Absent)),
      Text(TRUE, Doc(Absent, Absent, JObj({ <<"downloadUrl", "/new.pdf">> }),
                     Absent, JArr(<<"s2">>), JObj({ <<"theme", "light">> }))),
      Text(TRUE, Doc(JNull, JStr("x"), Absent, Absent, Absent, Absent)) }

FullProfile(name) ==
    JObj({ <<"name", name>>, <<"title", "T">>, <<"photo", "">>,
           <<"summary", "">>, <<"description", "">>, <<"location", "">>,
           <<"email", "">> })

\* The documents the UI saves: complete PortfolioData values; analytics is
\* an optional field of the config, left out, set to undefined or given.
SaveDocs ==
    { Doc(FullProfile("N"), JArr(<<"p9">>),
          createDefaultPortfolioData.sec["resume"], JArr(<<>>), JArr(<<>>),
          JObj({ <<"theme", "light">>, <<"language", "en">>,
                 <<"seo", "{title: 'Test Portfolio'}">> })),
      Doc(FullProfile("M"), JArr(<<>>),
          createDefaultPortfolioData.sec["resume"], JArr(<<>>), JArr(<<>>),
          JObj({ <<"theme", "dark">>, <<"language", "en">>,
                 <<"analytics", UNDEFINED>>,
                 <<"seo", "{title: ''}">> })),
      Doc(FullProfile("K"), JArr(<<"p8">>),
          createDefaultPortfolioData.sec["resume"], JArr(<<"c8">>), JArr(<<>>),
          JObj({ <<"theme", "light">>, <<"language", "en">>,
                 <<"analytics", "{enabled: true}">>,
                 <<"seo", "{title: 'K'}">> })) }

\* The strings handed to importContent.
ImportTexts ==
    { InvalidJson,
      Text(TRUE, Doc(FullProfile("I"), JArr(<<"p7">>), JObj({}), JArr(<<>>),
                     JArr(<<>>), JObj({}))),
      Text(TRUE, Doc(JObj({}), Absent, Absent, Absent, Absent, Absent)),
      Text(TRUE, Doc(JObj({}), JStr("x"), JObj({}), JArr(<<>>), JArr(<<>>),
                     JObj({}))) }

-----------------------------------------------------------------------------
(* ContentManager: public methods                                          *)

NoFetches == [s \in Sections |-> [status |-> "none", value |-> Absent]]

\* op: the method; err: the error it threw (NoErr: it returned); text: the
\* string passed to importContent; flag: the boolean returned; settled: how
\* the call's six fetches settled; before: the local-edits record that was
\* in the store when a loadContent or resetToDefaults began.  The document
\* loadContent and resetToDefaults return is the one they leave in the
\* cache, the string exportContent returns is exportContentValue(cache).
CmRet(op, err, text, flag, settled, before) ==
    [op |-> op, err |-> err, text |-> text, flag |-> flag,
     settled |-> settled, before |-> before]

NoCmRet == CmRet("none", NoErr, <<>>, FALSE, NoFetches, <<>>)

\* loadContent(), the fetches settling as `settled`
LoadContent(settled) ==
    /\ cache' = <<loadContentValue(settled, localStorage)>>
    /\ localStorage' = loadLocalDataStore(localStorage)
    /\ cmRet' = CmRet("loadContent", NoErr, <<>>, FALSE, settled,
                      getItem(localStorage, DATA_KEY))
    /\ UNCHANGED <<authVars, loads, ui>>

\* Mutant: the record already in the store is laid over the saved document.
saveContentStore_merge(ls, data) ==
    IF TruthyTop(loadLocalData(ls))
    THEN setItem(ls, DATA_KEY,
                 stringify(mergePortfolioData(data, loadLocalData(ls)[1])))
    ELSE setItem(ls, DATA_KEY, stringify(data))

\* saveContent(data)
saveContentStore(ls, data) == setItem(ls, DATA_KEY, stringify(data))

SaveContent(data) ==
    /\ localStorage' = saveContentStore(localStorage, data)
    /\ cache' = <<data>>
    /\ cmRet' = CmRet("saveContent", NoErr, <<>>, FALSE, NoFetches, <<>>)
    /\ UNCHANGED <<authVars, loads, ui>>

\* saveContent(data) when localStorage.setItem throws (quota exceeded)
SaveContentStoreThrows(data) ==
    /\ cmRet' = CmRet("saveContent", Err(MSG_SAVE_FAILED, ""), <<>>, FALSE,
                      NoFetches, <<>>)
    /\ UNCHANGED <<localStorage, cache>>
    /\ UNCHANGED <<authVars, loads, ui>>

\* exportContent(): the string returned, the cache being loaded
exportContentValue(c) == stringify(c[1])

exportContentError(c) == IF c = <<>> THEN Err(MSG_NOT_LOADED, "") ELSE NoErr

ExportContent ==
    /\ cmRet' = CmRet("exportContent", exportContentError(cache), <<>>, FALSE,
                      NoFetches, <<>>)
    /\ UNCHANGED <<localStorage, cache>>
    /\ UNCHANGED <<authVars, loads, ui>>

\* Mutant: the cache takes the parsed value before it is validated.
ImportContent_cachesFirst(jsonData) ==
    /\ cmRet' = CmRet("importContent", importContentError(jsonData),
                      <<jsonData>>, FALSE, NoFetches, <<>>)
    /\ IF importContentError(jsonData) = NoErr
       THEN /\ localStorage' = setItem(localStorage, DATA_KEY, jsonData)
            /\ cache' = <<parse(jsonData)>>
       ELSE /\ UNCHANGED localStorage
            /\ cache' = IF jsonData.valid THEN <<parse(jsonData)>> ELSE cache
    /\ UNCHANGED <<authVars, loads, ui>>

\* importContent(jsonData)
ImportContent(jsonData) ==
    /\ cmRet' = CmRet("importContent", importContentError(jsonData),
                      <<jsonData>>, FALSE, NoFetches, <<>>)
    /\ IF importContentError(jsonData) = NoErr
       THEN /\ localStorage' = setItem(localStorage, DATA_KEY, jsonData)
            /\ cache' = <<parse(jsonData)>>
       ELSE UNCHANGED <<localStorage, cache>>
    /\ UNCHANGED <<authVars, loads, ui>>

\* importContent(exportContent()), once content is loaded
ImportExported ==
    /\ cache # <<>>
    /\ ImportContent(exportContentValue(cache))

\* Mutant: the local-edits record is not removed before the reload.
ResetToDefaults_keepsRecord(settled) ==
    /\ cache' = <<loadContentValue(settled, localStorage)>>
    /\ localStorage' = loadLocalDataStore(localStorage)
    /\ cmRet' = CmRet("resetToDefaults", NoErr, <<>>, FALSE, settled,
                      getItem(localStorage, DATA_KEY))
    /\ UNCHANGED <<authVars, loads, ui>>

\* resetToDefaults(), the fetches of its loadContent settling as `settled`
ResetToDefaults(settled) ==
    LET cleared == removeItem(localStorage, DATA_KEY)
    IN /\ cache' = <<loadContentValue(settled, cleared)>>
       /\ localStorage' = loadLocalDataStore(cleared)
       /\ cmRet' = CmRet("resetToDefaults", NoErr, <<>>, FALSE, settled,
                         getItem(localStorage, DATA_KEY))
       /\ UNCHANGED <<authVars, loads, ui>>

GetCachedContent ==
    /\ cmRet' = CmRet("getCachedContent", NoErr, <<>>, cache # <<>>, NoFetches,
                      <<>>)
    /\ UNCHANGED <<localStorage, cache>>
    /\ UNCHANGED <<authVars, loads, ui>>

hasLocalModifications(ls) == getItem(ls, DATA_KEY) # <<>>

HasLocalModifications ==
    /\ cmRet' = CmRet("hasLocalModifications", NoErr, <<>>,
                      hasLocalModifications(localStorage), NoFetches, <<>>)
    /\ UNCHANGED <<localStorage, cache>>
    /\ UNCHANGED <<authVars, loads, ui>>

-----------------------------------------------------------------------------
(* ContentManager: the store failing                                       *)

\* loadContent(), every access to the store throwing: loadLocalData's
\* getItem throws, the removeItem of its catch block throws in its turn, and
\* the catch block of loadContent caches and returns the built-in defaults.
LoadContentStoreDenied(settled) ==
    /\ cache' = <<createDefaultPortfolioData>>
    /\ cmRet' = CmRet("loadContent", NoErr, <<>>, FALSE, settled, <<>>)
    /\ UNCHANGED localStorage
    /\ UNCHANGED <<authVars, loads, ui>>

\* importContent(jsonData), setItem throwing: a string that parses and
\* validates reaches the write, and the catch block throws again what it
\* caught when that is no SyntaxError.
importContentStoreThrowsError(jsonData) ==
    IF importContentError(jsonData) = NoErr THEN Err(STORE_EXCEPTION, "")
    ELSE importContentError(jsonData)

ImportContentStoreThrows(jsonData) ==
    /\ cmRet' = CmRet("importContent", importContentStoreThrowsError(jsonData),
                      <<jsonData>>, FALSE, NoFetches, <<>>)
    /\ UNCHANGED <<localStorage, cache>>
    /\ UNCHANGED <<authVars, loads, ui>>

\* resetToDefaults(), line 97: removeItem throws before the cache is cleared.
ResetToDefaultsStoreDenied ==
    /\ cmRet' = CmRet("resetToDefaults", Err(STORE_EXCEPTION, ""), <<>>, FALSE,
                      NoFetches, <<>>)
    /\ UNCHANGED <<localStorage, cache>>
    /\ UNCHANGED <<authVars, loads, ui>>

\* hasLocalModifications(), line 113
HasLocalModificationsStoreDenied ==
    /\ cmRet' = CmRet("hasLocalModifications", Err(STORE_EXCEPTION, ""), <<>>,
                      FALSE, NoFetches, <<>>)
    /\ UNCHANGED <<localStorage, cache>>
    /\ UNCHANGED <<authVars, loads, ui>>

-----------------------------------------------------------------------------
(* ContentManager: loadContent step by step                                *)
(*                                                                         *)
(* loadContent suspends in loadDefaultData at `await Promise.allSettled`   *)
(* while its six fetches settle, in any order; the rest of the call, from  *)
(* the destructuring of the results to the return, runs without a break.   *)

\* The i-th promise handed to Promise.allSettled fetches the file of the
\* i-th section.
FileCount == 6

SectionIndex(s) == CHOOSE i \in 1..FileCount : SectionNames[i] = s

NotSettled == [status |-> "none", value |-> Absent]

\* How the fetch of file i can settle here: rejected, or fulfilled with the
\* well-formed file.
FileOutcomes(i) == { Rejected, Fulfilled(StaticFiles[SectionNames[i]]) }

\* A loadContent call: outcomes[i] is how the fetch of file i settled, order
\* lists the files in the order their fetches settled, value is <<>> until
\* the call resolves and then <<the document it returned>>.
LoadCall(op, outcomes, order, value) ==
    [op |-> op, outcomes |-> outcomes, order |-> order, value |-> value]

AllSettled(call) == Len(call.order) = FileCount

\* Mutant: the results are collected in the order the fetches settle.
allSettled_completionOrder(outcomes, order) ==
    [i \in 1..FileCount |-> outcomes[order[i]]]

\* Promise.allSettled: the array of results, in the order of the promises
\* passed (whatever the order they settled in)
allSettled(outcomes, order) == [i \in 1..FileCount |-> outcomes[i]]

\* const [profile, projects, resume, certificates, socialLinks, config] = ...
destructure(results) == [s \in Sections |-> results[SectionIndex(s)]]

\* loadContent() is called: the six fetches start.
LoadContentBegin(maxCalls) ==
    /\ Len(loads) < maxCalls
    /\ loads' = Append(loads, LoadCall("loadContent",
                                       [i \in 1..FileCount |-> NotSettled],
                                       <<>>, <<>>))
    /\ UNCHANGED <<localStorage, cache, cmRet>>
    /\ UNCHANGED <<authVars, ui>>

\* One fetch of the k-th call settles.
FetchSettles(k, i, outcome) ==
    /\ k \in 1..Len(loads)
    /\ loads[k].outcomes[i] = NotSettled
    /\ loads' = [loads EXCEPT ![k].outcomes[i] = outcome,
                              ![k].order = Append(@, i)]
    /\ UNCHANGED <<localStorage, cache, cmRet>>
    /\ UNCHANGED <<authVars, ui>>

\* All six fetches of the k-th call have settled: loadDefaultData returns,
\* the local-edits record is read and merged, the cache is set and the call
\* resolves.
\* Mutant: a call that resolves after another one leaves the cache alone.
LoadContentFinish_firstWins(k) ==
    /\ k \in 1..Len(loads)
    /\ loads[k].value = <<>>
    /\ AllSettled(loads[k])
    /\ LET settled == destructure(allSettled(loads[k].outcomes, loads[k].order))
           mergedData == loadContentValue(settled, localStorage)
       IN /\ cache' = IF \E j \in 1..Len(loads) : loads[j].value # <<>>
                      THEN cache ELSE <<mergedData>>
          /\ loads' = [loads EXCEPT ![k].value = <<mergedData>>]
          /\ localStorage' = loadLocalDataStore(localStorage)
          /\ cmRet' = CmRet(loads[k].op, NoErr, <<>>, FALSE, settled,
                            getItem(localStorage, DATA_KEY))
    /\ UNCHANGED <<authVars, ui>>

LoadContentFinish(k) ==
    /\ k \in 1..Len(loads)
    /\ loads[k].value = <<>>
    /\ AllSettled(loads[k])
    /\ LET settled == destructure(allSettled(loads[k].outcomes, loads[k].order))
           mergedData == loadContentValue(settled, localStorage)
       IN /\ cache' = <<mergedData>>
          /\ loads' = [loads EXCEPT ![k].value = <<mergedData>>]
          /\ localStorage' = loadLocalDataStore(localStorage)
          /\ cmRet' = CmRet(loads[k].op, NoErr, <<>>, FALSE, settled,
                            getItem(localStorage, DATA_KEY))
    /\ UNCHANGED <<authVars, ui>>

\* A saveContent(data) made while a loadContent call is suspended
SaveContentDuringLoad(data) ==
    /\ \E k \in 1..Len(loads) : loads[k].value = <<>>
    /\ localStorage' = saveContentStore(localStorage, data)
    /\ cache' = <<data>>
    /\ cmRet' = CmRet("saveContent", NoErr, <<>>, FALSE, NoFetches, <<>>)
    /\ UNCHANGED <<authVars, loads, ui>>

-----------------------------------------------------------------------------
(* ContentManager: resetToDefaults step by step                            *)

\* Mutant: the cache keeps its document while the reset reloads.
ResetToDefaultsBegin_keepsCache(maxCalls) ==
    /\ Len(loads) < maxCalls
    /\ loads' = Append(loads, LoadCall("resetToDefaults",
                                       [i \in 1..FileCount |-> NotSettled],
                                       <<>>, <<>>))
    /\ localStorage' = removeItem(localStorage, DATA_KEY)
    /\ UNCHANGED <<cache, cmRet>>
    /\ UNCHANGED <<authVars, ui>>

\* resetToDefaults() is called: the local-edits record is removed, the cache
\* is cleared, and the loadContent() it awaits starts its six fetches.
ResetToDefaultsBegin(maxCalls) ==
    /\ Len(loads) < maxCalls
    /\ loads' = Append(loads, LoadCall("resetToDefaults",
                                       [i \in 1..FileCount |-> NotSettled],
                                       <<>>, <<>>))
    /\ localStorage' = removeItem(localStorage, DATA_KEY)
    /\ cache' = <<>>
    /\ UNCHANGED cmRet
    /\ UNCHANGED <<authVars, ui>>

\* An importContent(jsonData) made while a call is suspended on its fetches
ImportContentDuringLoad(jsonData) ==
    /\ \E k \in 1..Len(loads) : loads[k].value = <<>>
    /\ ImportContent(jsonData)

\* loadContent() made, and resolved, before any other call
FirstLoad(settled) ==
    /\ loads = <<>>
    /\ cmRet = NoCmRet
    /\ LoadContent(settled)

-----------------------------------------------------------------------------
(* The application shell: AuthContext, AppContext and App                  *)
(*                                                                         *)
(* ui holds the React state the shell keeps about the services:            *)
(*   isAuthenticated, sessionTimeRemaining, isLockedOut  (AuthContext)     *)
(*   isEditMode                                          (AppContext)      *)
(*   showLoginModal                                      (App)             *)

\* The values of the useState calls.
InitialUi ==
    [isAuthenticated |-> FALSE, sessionTimeRemaining |-> 0,
     isLockedOut |-> FALSE, isEditMode |-> FALSE, showLoginModal |-> FALSE]

\* updateAuthState(): isAuthenticated(), getSessionTimeRemaining() and
\* getLockoutInfo() are called in turn; the store they leave
updateAuthStateStore(ls, t) == isLockedOutStore(getSessionStore(ls, t), t)

\* updateAuthState(): the state it sets
updateAuthState(u, ls, t) ==
    [u EXCEPT !.isAuthenticated = isAuthenticatedValue(ls, t),
              !.sessionTimeRemaining = getSessionTimeRemainingValue(ls, t),
              !.isLockedOut = getLockoutInfoRet(getSessionStore(ls, t), t).ok]

\* handleLogout(): logout(), then updateAuthState()
handleLogoutStore(ls, t) == updateAuthStateStore(logoutStore(ls), t)
handleLogout(u, ls, t) == updateAuthState(u, logoutStore(ls), t)

\* The auto-logout effect runs after a render in which the state says
\* isAuthenticated with no time remaining, and calls handleLogout.
autoLogout(u) == u.isAuthenticated /\ u.sessionTimeRemaining <= 0

afterEffectsStore(u, ls, t) ==
    IF autoLogout(u) THEN handleLogoutStore(ls, t) ELSE ls

afterEffects(u, ls, t) ==
    IF autoLogout(u) THEN handleLogout(u, ls, t) ELSE u

\* The one-second interval of AuthContext: updateAuthState(), and the
\* effects of the render that follows.
UiTick ==
    LET ls1 == updateAuthStateStore(localStorage, now)
        u1 == updateAuthState(ui, localStorage, now)
    IN /\ ui' = afterEffects(u1, ls1, now)
       /\ localStorage' = afterEffectsStore(u1, ls1, now)
       /\ UNCHANGED <<now, config, pending, ret, cache, cmRet, loads>>

\* App.handleEditModeToggle, the handler of the floating button, which is
\* rendered while the state says not authenticated.
HandleEditModeToggle ==
    /\ ~ui.isAuthenticated
    /\ ui' = IF ui.isAuthenticated
             THEN [ui EXCEPT !.isEditMode = ~ui.isEditMode]
             ELSE [ui EXCEPT !.showLoginModal = TRUE]
    /\ UNCHANGED <<now, localStorage, config, pending, ret, cache, cmRet, loads>>

\* AppContext.toggleEditMode, the handler of the navigation bar's edit
\* button, which is rendered while the state says authenticated.
ToggleEditMode ==
    /\ ui.isAuthenticated
    /\ ui' = [ui EXCEPT !.isEditMode = ~ui.isEditMode]
    /\ UNCHANGED <<now, localStorage, config, pending, ret, cache, cmRet, loads>>

\* LoginModal.handleClose, disabled while a login is in flight.
CloseLoginModal ==
    /\ ui.showLoginModal
    /\ pending = <<>>
    /\ ui' = [ui EXCEPT !.showLoginModal = FALSE]
    /\ UNCHANGED <<now, localStorage, config, pending, ret, cache, cmRet, loads>>

\* LoginModal.handleSubmit -> AuthContext.handleLogin: authenticate suspends
\* at the digest.  The form is rendered while the state says not locked
\* out, and the state says so whenever the store of this page does.
LoginSubmit(password) ==
    /\ ui.showLoginModal
    /\ ~ui.isLockedOut
    /\ pending = <<>>
    /\ ~isLockedOut(localStorage, now)
    /\ pending' = <<password>>
    /\ localStorage' = isLockedOutStore(localStorage, now)
    /\ UNCHANGED <<now, config, ret, cache, cmRet, loads, ui>>

\* A successful login: onSuccess (App.handleLoginSuccess -> toggleEditMode),
\* then onClose.
loginSuccessUi(u) ==
    [u EXCEPT !.isEditMode = ~u.isEditMode, !.showLoginModal = FALSE]

\* The digest resolves: authenticate returns; on success handleLogin calls
\* updateAuthState() and the modal calls onSuccess and onClose, otherwise
\* handleLogin refreshes the lockout info.
LoginResolve ==
    /\ pending # <<>>
    /\ pending' = <<>>
    /\ LET result == authenticateRet(localStorage, config, now, pending[1])
           ls1 == authenticateStore(localStorage, config, now, pending[1])
           ls2 == updateAuthStateStore(ls1, now)
           u2 == loginSuccessUi(updateAuthState(ui, ls1, now))
       IN /\ ret' = result
          /\ IF result.ok
             THEN /\ ui' = afterEffects(u2, ls2, now)
                  /\ localStorage' = afterEffectsStore(u2, ls2, now)
             ELSE /\ ui' = [ui EXCEPT !.isLockedOut =
                                          getLockoutInfoRet(ls1, now).ok]
                  /\ localStorage' = isLockedOutStore(ls1, now)
    /\ UNCHANGED <<now, config, cache, cmRet, loads>>

\* AuthContext.handleLogout, the handler of the logout button, which is
\* rendered while the state says authenticated.
UiLogout ==
    /\ ui.isAuthenticated
    /\ ui' = handleLogout(ui, localStorage, now)
    /\ localStorage' = handleLogoutStore(localStorage, now)
    /\ ret' = Ret("logout", FALSE, MSG_NONE, 0)
    /\ UNCHANGED <<now, config, pending, cache, cmRet, loads>>

\* AuthContext.handleExtendSession, the handler of the extend button, which
\* is rendered while the state says authenticated.
UiExtendSession ==
    /\ ui.isAuthenticated
    /\ LET extended == hasSession(localStorage, now)
           ls1 == extendSessionStore(localStorage, config, now)
           u1 == IF extended THEN updateAuthState(ui, ls1, now) ELSE ui
           ls2 == IF extended THEN updateAuthStateStore(ls1, now) ELSE ls1
       IN /\ ret' = Ret("extendSession", extended, MSG_NONE, 0)
          /\ ui' = afterEffects(u1, ls2, now)
          /\ localStorage' = afterEffectsStore(u1, ls2, now)
    /\ UNCHANGED <<now, config, pending, cache, cmRet, loads>>

-----------------------------------------------------------------------------
(* Specifications                                                          *)

\* The services right after construction, on an empty store.
Init ==
    /\ now = 0
    /\ localStorage = EmptyStorage
    /\ config = DefaultConfig
    /\ pending = <<>>
    /\ ret = NoRet
    /\ cache = <<>>
    /\ cmRet = NoCmRet
    /\ loads = <<>>
    /\ ui = InitialUi

\* One caller: at most one authenticate call is in flight.
Next ==
    \/ \E t \in TimePoints : Tick(t)
    \/ \E p \in Passwords : AuthenticateLocked(p)
    \/ \E p \in Passwords : AuthenticateBegin(p, 1)
    \/ \E i \in 1..Len(pending) : AuthenticateResolve(i)
    \/ \E i \in 1..Len(pending) : AuthenticateDigestThrows(i)
    \/ IsAuthenticated
    \/ GetSessionTimeRemaining
    \/ ExtendSession
    \/ Logout
    \/ GetLockoutInfo
    \/ \E u \in ConfigUpdates : UpdateConfig(u)
    \/ SessionCleanup

Spec == Init /\ [][Next]_vars

\* A fresh ContentManager; the store holds what earlier visits left in it.
InitContent ==
    /\ now = 0
    /\ config = DefaultConfig
    /\ pending = <<>>
    /\ ret = NoRet
    /\ cache = <<>>
    /\ cmRet = NoCmRet
    /\ loads = <<>>
    /\ ui = InitialUi
    /\ \E local \in {<<>>} \cup { <<t>> : t \in LocalRecords } :
           localStorage = [EmptyStorage EXCEPT ![DATA_KEY] = local]

\* One caller, whose calls do not overlap.
NextContent ==
    \/ \E settled \in SettledSets : LoadContent(settled)
    \/ \E d \in SaveDocs : SaveContent(d)
    \/ \E d \in SaveDocs : SaveContentStoreThrows(d)
    \/ ExportContent
    \/ \E t \in ImportTexts : ImportContent(t)
    \/ \E t \in ImportTexts : ImportContentStoreThrows(t)
    \/ ImportExported
    \/ \E settled \in SettledSets : ResetToDefaults(settled)
    \/ GetCachedContent
    \/ HasLocalModifications

SpecCM == InitContent /\ [][NextContent]_vars

\* A session record that JSON.parse throws on.
CorruptSession ==
    [parses |-> FALSE, isAuthenticated |-> FALSE, loginTime |-> 0, expiresAt |-> 0]

\* The session records a page load can find in the store: one that does not
\* parse, and the session of a login made at instant 0.
StoredSessions ==
    { CorruptSession, SessionJson(TRUE, 0, DefaultConfig.sessionTimeout) }

\* A fresh AuthService over a store that holds a session record.
InitStored ==
    /\ now = 0
    /\ config = DefaultConfig
    /\ pending = <<>>
    /\ ret = NoRet
    /\ cache = <<>>
    /\ cmRet = NoCmRet
    /\ loads = <<>>
    /\ ui = InitialUi
    /\ \E session \in StoredSessions :
           localStorage = setItem(EmptyStorage, STORAGE_KEY, session)

\* The session queries, the cleanup timer and the clock.
NextStored ==
    \/ \E t \in TimePoints : Tick(t)
    \/ IsAuthenticated
    \/ GetSessionTimeRemaining
    \/ ExtendSession
    \/ SessionCleanup

SpecStored == InitStored /\ [][NextStored]_vars

\* The document the UI saves while a load is under way.
EditedDoc ==
    Doc(FullProfile("N"), JArr(<<"p9">>),
        createDefaultPortfolioData.sec["resume"], JArr(<<>>), JArr(<<>>),
        JObj({ <<"theme", "light">>, <<"language", "en">>,
               <<"seo", "{title: 'Test Portfolio'}">> }))

\* One loadContent call on a fresh ContentManager, its fetches settling one
\* by one in any order with any outcomes, and the UI saving meanwhile.
NextLoad ==
    \/ LoadContentBegin(1)
    \/ \E i \in 1..FileCount : \E o \in FileOutcomes(i) : FetchSettles(1, i, o)
    \/ LoadContentFinish(1)
    \/ SaveContentDuringLoad(EditedDoc)

SpecLoad == InitContent /\ [][NextLoad]_vars

\* The strings importContent is judged on: every document whose six
\* sections are each missing, null, a string, a number, an array or an
\* object; the top-level values that are no such document; a text that is
\* no JSON.
SectionValues == { Absent, JNull, JStr("x"), JNum("5"), JArr(<<>>), JObj({}) }

ImportCandidates ==
    { Text(TRUE, [top |-> "object", sec |-> f]) : f \in [Sections -> SectionValues] }
    \cup { Text(TRUE, Scalar(k)) : k \in {"null", "string", "number", "array"} }
    \cup { InvalidJson }

\* The first call on a fresh ContentManager is importContent(jsonData).
ImportFirst(jsonData) ==
    /\ cmRet = NoCmRet
    /\ ImportContent(jsonData)

NextImport == cmRet = NoCmRet /\ \E t \in ImportCandidates : ImportFirst(t)

SpecImport == Init /\ [][NextImport]_vars

\* The stores a call can find when the store starts to fail: empty, holding
\* the session of a login made at instant 0, holding the counter and the
\* lockout record of five failures made at instant 0, holding local edits.
FaultyStores ==
    { EmptyStorage,
      setItem(EmptyStorage, STORAGE_KEY,
              SessionJson(TRUE, 0, DefaultConfig.sessionTimeout)),
      setItem(setItem(EmptyStorage, ATTEMPTS_KEY,
                      NumToString(DefaultConfig.maxLoginAttempts, 10)),
              LOCKOUT_KEY, NumToString(DefaultConfig.lockoutDuration, 10)) }
    \cup { setItem(EmptyStorage, DATA_KEY, t) : t \in LocalRecords }

InitFaulty ==
    /\ now = 0
    /\ config = DefaultConfig
    /\ pending = <<>>
    /\ ret = NoRet
    /\ cache = <<>>
    /\ cmRet = NoCmRet
    /\ loads = <<>>
    /\ ui = InitialUi
    /\ localStorage \in FaultyStores

\* Every public method that touches the store, called while the store
\* fails.
NextFaulty ==
    \/ \E t \in TimePoints : Tick(t)
    \/ \E p \in Passwords : AuthenticateStoreDenied(p)
    \/ \E p \in Passwords : AuthenticateLocked(p)
    \/ \E p \in Passwords : AuthenticateBegin(p, 1)
    \/ \E i \in 1..Len(pending) : AuthenticateResolveQuota(i)
    \/ IsAuthenticatedStoreDenied
    \/ GetSessionTimeRemainingStoreDenied
    \/ \E fault \in StoreFaults : ExtendSessionStoreFails(fault)
    \/ LogoutStoreDenied
    \/ GetLockoutInfoStoreDenied
    \/ LoadContentStoreDenied(AllRejected)
    \/ \E d \in SaveDocs : SaveContentStoreThrows(d)
    \/ \E t \in ImportTexts : ImportContentStoreThrows(t)
    \/ ResetToDefaultsStoreDenied
    \/ HasLocalModificationsStoreDenied

SpecFaulty == InitFaulty /\ [][NextFaulty]_vars

\* How the fetch of file i settles when two loads overlap: the first two
\* files may be rejected, the others are fulfilled.
OverlapOutcomes(i) ==
    IF i <= 2 THEN FileOutcomes(i)
    ELSE { Fulfilled(StaticFiles[SectionNames[i]]) }

\* The next fetch of the k-th call settles; here the fetches of one call
\* settle in the order of the files, those of two calls in any interleaving.
NextFetchSettles(k) ==
    /\ k \in 1..Len(loads)
    /\ Len(loads[k].order) < FileCount
    /\ \E o \in OverlapOutcomes(Len(loads[k].order) + 1) :
           FetchSettles(k, Len(loads[k].order) + 1, o)

\* Two loadContent calls on a fresh ContentManager, the second one made
\* at any moment, and the UI saving meanwhile.
NextOverlap ==
    \/ LoadContentBegin(2)
    \/ \E k \in 1..2 : NextFetchSettles(k)
    \/ \E k \in 1..2 : LoadContentFinish(k)
    \/ SaveContentDuringLoad(EditedDoc)

SpecOverlap == InitContent /\ [][NextOverlap]_vars

\* The shell on an empty store: the clock, the two timers, the user's
\* clicks, and the session queries of any component.
NextShell ==
    \/ \E t \in TimePoints : Tick(t)
    \/ SessionCleanup
    \/ UiTick
    \/ IsAuthenticated
    \/ GetSessionTimeRemaining
    \/ HandleEditModeToggle
    \/ ToggleEditMode
    \/ CloseLoginModal
    \/ \E p \in Passwords : LoginSubmit(p)
    \/ LoginResolve
    \/ UiLogout
    \/ UiExtendSession

SpecShell == Init /\ [][NextShell]_vars

\* setInterval keeps firing: the interval of AuthContext is never starved.
SpecShellFair == SpecShell /\ WF_vars(UiTick)

\* getLockoutInfo() called while no authenticate call is suspended
GetLockoutInfoBetweenCalls ==
    /\ pending = <<>>
    /\ GetLockoutInfo

\* One caller under the configuration of the constructor: authenticate and
\* getLockoutInfo calls that do not overlap, and the clock.
NextSequential ==
    \/ \E t \in TimePoints : Tick(t)
    \/ \E p \in Passwords : AuthenticateLocked(p)
    \/ \E p \in Passwords : AuthenticateBegin(p, 1)
    \/ \E i \in 1..Len(pending) : AuthenticateResolve(i)
    \/ \E i \in 1..Len(pending) : AuthenticateDigestThrows(i)
    \/ GetLockoutInfoBetweenCalls

SpecSequential == Init /\ [][NextSequential]_vars

\* One caller moving between the states of the service: authenticate,
\* logout, extendSession, and the clock.
NextStates ==
    \/ \E t \in TimePoints : Tick(t)
    \/ \E p \in Passwords : AuthenticateLocked(p)
    \/ \E p \in Passwords : AuthenticateBegin(p, 1)
    \/ \E i \in 1..Len(pending) : AuthenticateResolve(i)
    \/ Logout
    \/ ExtendSession

SpecStates == Init /\ [][NextStates]_vars

\* authenticate calls that overlap: up to MaxInFlight of them are suspended
\* at the digest at once, and the digests resolve in any order.
NextConcurrent ==
    \/ \E t \in TimePoints : Tick(t)
    \/ \E p \in Passwords : AuthenticateLocked(p)
    \/ \E p \in Passwords : AuthenticateBegin(p, MaxInFlight)
    \/ \E i \in 1..Len(pending) : AuthenticateResolve(i)

SpecConcurrent == Init /\ [][NextConcurrent]_vars

\* A first loadContent, then one resetToDefaults call whose fetches settle
\* one by one, the UI saving, importing and exporting meanwhile.
NextReset ==
    \/ \E settled \in {AllRejected, [s \in Sections |-> Fulfilled(StaticFiles[s])]} :
           FirstLoad(settled)
    \/ ResetToDefaultsBegin(1)
    \/ NextFetchSettles(1)
    \/ LoadContentFinish(1)
    \/ SaveContentDuringLoad(EditedDoc)
    \/ \E t \in ImportTexts : ImportContentDuringLoad(t)
    \/ ExportContent

SpecReset == InitContent /\ [][NextReset]_vars

-----------------------------------------------------------------------------
(* What the store holds, read for the properties below                     *)

StoredAttempts(ls) ==
    IF ls[ATTEMPTS_KEY] = <<>> THEN 0 ELSE parseInt(ls[ATTEMPTS_KEY][1], 10)

HasLockout(ls) == ls[LOCKOUT_KEY] # <<>>
LockedUntil(ls) == parseInt(ls[LOCKOUT_KEY][1], 10)
LockoutActive(ls, t) == HasLockout(ls) /\ t < LockedUntil(ls)

HasStoredSession(ls) == ls[STORAGE_KEY] # <<>>
StoredSession(ls) == ls[STORAGE_KEY][1]

TooManyFailedAttempts(msg) == msg \in {MSG_TRY_AGAIN, MSG_LOCKED}

CORRECT_PASSWORD == "admin123"

\* m = Math.ceil(x / d), stated without the division
IsCeilOf(m, x, d) == m * d >= x /\ (m - 1) * d < x

\* A step in which authenticate(password) is called
AuthenticateCalled(password) ==
    AuthenticateLocked(password) \/ AuthenticateBegin(password, 1)

-----------------------------------------------------------------------------
\* C1: with maxLoginAttempts = 5 the failed authenticate that brings the
\* counter to 5 (the 5th in a row from an absent counter), and none before
\* it, returns a "Too many failed attempts" error and stores a lockout record
\* with lockedUntil = now + lockoutDuration; an authenticate called before
\* lockedUntil fails with the remaining-time message whatever the password;
\* one called with the correct password at or after lockedUntil is admitted
\* and succeeds.
C1_FifthFailure ==
    \A i \in 1..Len(pending) :
        ( /\ AuthenticateResolve(i)
          /\ pending[i] # CORRECT_PASSWORD
          /\ config.maxLoginAttempts = 5 )
        => /\ StoredAttempts(localStorage') = StoredAttempts(localStorage) + 1
           /\ IF StoredAttempts(localStorage') = 5
              THEN /\ ~ret'.ok
                   /\ TooManyFailedAttempts(ret'.msg)
                   /\ HasLockout(localStorage')
                   /\ LockedUntil(localStorage') = now + config.lockoutDuration
              ELSE /\ ~ret'.ok
                   /\ ~TooManyFailedAttempts(ret'.msg)
                   /\ ~HasLockout(localStorage')

C1_SixthCall ==
    \A p \in Passwords :
        (AuthenticateCalled(p) /\ LockoutActive(localStorage, now))
        => /\ ~ret'.ok
           /\ ret'.msg = MSG_TRY_AGAIN
           /\ pending' = pending

C1_AfterLockout ==
    /\ ( /\ AuthenticateCalled(CORRECT_PASSWORD)
         /\ HasLockout(localStorage)
         /\ now >= LockedUntil(localStorage) )
       => pending' = Append(pending, CORRECT_PASSWORD)
    /\ \A i \in 1..Len(pending) :
           (AuthenticateResolve(i) /\ pending[i] = CORRECT_PASSWORD)
           => ret' = Ret("authenticate", TRUE, MSG_NONE, 0)

C1_LockoutThreshold ==
    [][C1_FifthFailure /\ C1_SixthCall /\ C1_AfterLockout]_vars

\* C1 witness: the fifth failure in a row has just locked the account.
C1_Witness ==
    /\ config.maxLoginAttempts = 5
    /\ ret.op = "authenticate" /\ ret.msg = MSG_LOCKED
    /\ StoredAttempts(localStorage) = 5
    /\ LockoutActive(localStorage, now)

-----------------------------------------------------------------------------
\* C2: isAuthenticated() on a stored session returns true if and only if
\* now < expiresAt, and a session it reports expired is removed from the
\* store by the same call.
C2_ValidIffBeforeExpiry ==
    [][ ( /\ IsAuthenticated
          /\ HasStoredSession(localStorage)
          /\ StoredSession(localStorage).parses )
        => /\ ret'.ok <=> (now < StoredSession(localStorage).expiresAt)
           /\ ~ret'.ok => ~HasStoredSession(localStorage') ]_vars

-----------------------------------------------------------------------------
\* C3: authenticate with the correct password, when not locked out, returns
\* {success: true}, removes the attempt counter and the lockout record and
\* stores the session {isAuthenticated: true, loginTime: now, expiresAt: now +
\* sessionTimeout}; isAuthenticated() is then true, and while that session
\* lasts getSessionTimeRemaining() is sessionTimeout minus the time elapsed
\* since the login.
C3_Login ==
    \A i \in 1..Len(pending) :
        (AuthenticateResolve(i) /\ pending[i] = CORRECT_PASSWORD)
        => /\ ret' = Ret("authenticate", TRUE, MSG_NONE, 0)
           /\ localStorage'[ATTEMPTS_KEY] = <<>>
           /\ localStorage'[LOCKOUT_KEY] = <<>>
           /\ localStorage'[STORAGE_KEY] =
                  << [parses |-> TRUE, isAuthenticated |-> TRUE,
                      loginTime |-> now,
                      expiresAt |-> now + config.sessionTimeout] >>
           /\ isAuthenticatedValue(localStorage', now')
           /\ getSessionTimeRemainingValue(localStorage', now')
                  = config.sessionTimeout

\* The session as the login stored it, not extended since.
SessionAsCreated(ls, cfg) ==
    /\ HasStoredSession(ls)
    /\ StoredSession(ls).parses
    /\ StoredSession(ls).expiresAt = StoredSession(ls).loginTime + cfg.sessionTimeout

C3_Remaining ==
    ( /\ GetSessionTimeRemaining
      /\ SessionAsCreated(localStorage, config)
      /\ now <= StoredSession(localStorage).expiresAt )
    => ret'.val = config.sessionTimeout - (now - StoredSession(localStorage).loginTime)

C3_CorrectPassword == [][C3_Login /\ C3_Remaining]_vars

\* C3 witness: a login has just succeeded, some time into the run.
C3_Witness ==
    /\ ret = Ret("authenticate", TRUE, MSG_NONE, 0)
    /\ HasStoredSession(localStorage)
    /\ now > 0

-----------------------------------------------------------------------------
\* C4: while a lockout is active, authenticate with any password returns
\* success = false with ceil((lockedUntil - now) / 60000) remaining minutes
\* and leaves the attempt counter, the lockout record and the session record
\* as they were; no call is admitted to the digest.
C4_LockedOutFrame ==
    [][ \A p \in Passwords :
          (AuthenticateCalled(p) /\ LockoutActive(localStorage, now))
          => /\ ret'.op = "authenticate"
             /\ ~ret'.ok
             /\ ret'.msg = MSG_TRY_AGAIN
             /\ IsCeilOf(ret'.val, LockedUntil(localStorage) - now, 60000)
             /\ localStorage' = localStorage
             /\ pending' = pending ]_vars

\* C4 witness: a locked-out call was refused part-way through a minute.
C4_Witness ==
    /\ ret.op = "authenticate" /\ ret.msg = MSG_TRY_AGAIN
    /\ LockoutActive(localStorage, now)
    /\ (LockedUntil(localStorage) - now) % 60000 # 0

-----------------------------------------------------------------------------
\* C5: authenticate with a wrong password, when not locked out, adds exactly
\* one to the stored attempt counter (absent counts as 0) and stores no
\* session; if the new counter is below maxLoginAttempts no lockout record is
\* stored and the error is "Invalid password" with maxLoginAttempts minus the
\* new counter attempts remaining.
C5_WrongPassword ==
    [][ \A i \in 1..Len(pending) :
          (AuthenticateResolve(i) /\ pending[i] # CORRECT_PASSWORD)
          => /\ StoredAttempts(localStorage') = StoredAttempts(localStorage) + 1
             /\ localStorage'[STORAGE_KEY] = localStorage[STORAGE_KEY]
             /\ ~ret'.ok
             /\ StoredAttempts(localStorage') < config.maxLoginAttempts
                => /\ ~HasLockout(localStorage')
                   /\ ret'.msg = MSG_INVALID
                   /\ ret'.val = config.maxLoginAttempts
                                     - StoredAttempts(localStorage') ]_vars

\* C5 witness: a second wrong password has left 3 of 5 attempts.
C5_Witness ==
    /\ ret = Ret("authenticate", FALSE, MSG_INVALID, 3)
    /\ StoredAttempts(localStorage) = 2
    /\ ~HasLockout(localStorage)

-----------------------------------------------------------------------------
\* C6: loadContent lays the local-edits record over the fetched defaults:
\* a profile or config object in the record overrides the default's fields
\* it names and keeps the others; projects, resume, certificates and
\* socialLinks in the record replace the default whole (one project over two
\* gives one project); a section the record lacks keeps the default.
C6_MergeRule ==
    ( /\ cmRet.op = "loadContent"
      /\ cmRet.before # <<>>
      /\ cmRet.before[1].valid
      /\ cmRet.before[1].value.top = "object" )
    => LET defaults == loadDefaultData(cmRet.settled)
           overlay == cmRet.before[1].value
           result == cache[1]
       IN \A s \in Sections :
            IF overlay.sec[s].k = "absent"
            THEN result.sec[s] = defaults.sec[s]
            ELSE IF s \in {"profile", "config"}
            THEN overlay.sec[s].k = "object"
                 => /\ result.sec[s].k = "object"
                    /\ \A pr \in overlay.sec[s].o : pr \in result.sec[s].o
                    /\ \A pr \in defaults.sec[s].o :
                          pr[1] \notin Keys(overlay.sec[s].o)
                              => pr \in result.sec[s].o
                    /\ Keys(result.sec[s].o) =
                          Keys(overlay.sec[s].o) \cup Keys(defaults.sec[s].o)
            ELSE /\ result.sec[s] = overlay.sec[s]
                 /\ IsArray(overlay.sec[s])
                    => Len(result.sec[s].a) = Len(overlay.sec[s].a)

\* C6 witness: the record {profile: {name: "C"}, projects: [p3]} was laid
\* over a fetched profile {name: "A", title: "B"} and two fetched projects.
C6_Witness ==
    /\ cmRet.op = "loadContent"
    /\ cmRet.before # <<>>
    /\ cmRet.before[1].valid
    /\ cmRet.before[1].value.sec["projects"] = JArr(<<"p3">>)
    /\ loadDefaultData(cmRet.settled).sec["projects"] = JArr(<<"p1", "p2">>)
    /\ <<"title", "B">> \in loadDefaultData(cmRet.settled).sec["profile"].o
    /\ cache[1].sec["projects"] = JArr(<<"p3">>)
    /\ <<"name", "C">> \in cache[1].sec["profile"].o
    /\ <<"title", "B">> \in cache[1].sec["profile"].o

-----------------------------------------------------------------------------
\* C7: importContent(s) succeeds if and only if s parses to an object that
\* has all six sections, with projects, certificates and socialLinks arrays
\* and profile, resume and config objects.
IsObjectValue(v) == v.k = "object"

WellFormedImport(jsonData) ==
    /\ jsonData.valid
    /\ jsonData.value.top = "object"
    /\ \A s \in Sections : jsonData.value.sec[s].k # "absent"
    /\ \A s \in {"projects", "certificates", "socialLinks"} :
           IsArray(jsonData.value.sec[s])
    /\ \A s \in {"profile", "resume", "config"} :
           IsObjectValue(jsonData.value.sec[s])

C7_ImportIffWellFormed ==
    cmRet.op = "importContent"
    => (cmRet.err = NoErr <=> WellFormedImport(cmRet.text[1]))

-----------------------------------------------------------------------------
\* C8: right after a loadContent, importContent(exportContent()) returns
\* without error and leaves the cache as it was.
C8_RoundTrip ==
    [][ (cmRet.op = "loadContent" /\ ImportExported)
        => (cmRet'.err = NoErr /\ cache' = cache) ]_vars

-----------------------------------------------------------------------------
\* C9: saveContent(d) leaves under portfolio_data the serialization of d
\* alone, whatever record was there, and d in the cache; when the store
\* write throws it fails with "Failed to save content" and the cache and the
\* store keep what they held.
C9_Save ==
    [][ \A d \in SaveDocs :
          /\ SaveContent(d)
             => /\ cmRet'.err = NoErr
                /\ localStorage'[DATA_KEY] # <<>>
                /\ localStorage'[DATA_KEY][1].valid
                /\ \A s \in Sections :
                      parse(localStorage'[DATA_KEY][1]).sec[s]
                          = StringifyVal(d.sec[s])
                /\ cache' = <<d>>
          /\ SaveContentStoreThrows(d)
             => /\ cmRet'.err = Err(MSG_SAVE_FAILED, "")
                /\ cache' = cache
                /\ localStorage' = localStorage ]_vars

\* C9 witness: a document with a field set to undefined has been saved; the
\* cache holds it and the store its serialization.
C9_Witness ==
    /\ cmRet.op = "saveContent" /\ cmRet.err = NoErr
    /\ cache # <<>> /\ cache[1] \in SaveDocs
    /\ localStorage[DATA_KEY] = <<stringify(cache[1])>>
    /\ <<"analytics", UNDEFINED>> \in cache[1].sec["config"].o

-----------------------------------------------------------------------------
\* C10: resetToDefaults() removes portfolio_data and returns and caches the
\* document loadContent yields without a local-edits record, the hard-coded
\* default document when all six files are missing; hasLocalModifications()
\* is false afterwards.
C10_Reset ==
    [][ (cmRet'.op = "resetToDefaults" /\ ResetToDefaults(cmRet'.settled))
        => /\ cmRet'.err = NoErr
           /\ localStorage'[DATA_KEY] = <<>>
           /\ ~hasLocalModifications(localStorage')
           /\ cache' = <<loadContentValue(cmRet'.settled, EmptyStorage)>>
           /\ cmRet'.settled = AllRejected
              => cache' = <<createDefaultPortfolioData>> ]_vars

\* C10 witness: a reset after a saveContent(d), all six files missing.
C10_Witness ==
    /\ cmRet.op = "resetToDefaults"
    /\ cmRet.before \in { <<stringify(d)>> : d \in SaveDocs }
    /\ cmRet.settled = AllRejected
    /\ cache = <<createDefaultPortfolioData>>
    /\ localStorage[DATA_KEY] = <<>>

-----------------------------------------------------------------------------
\* C11: extendSession() returns false and stores no session when there is no
\* session or the session has expired (now >= expiresAt: a session is valid
\* iff now < expiresAt); on a valid session it returns true and rewrites the
\* session with expiresAt = now + sessionTimeout, loginTime and isAuthenticated
\* as they were.
C11_ExtendSession ==
    [][ ExtendSession
        => IF /\ HasStoredSession(localStorage)
              /\ now < StoredSession(localStorage).expiresAt
           THEN /\ ret'.ok
                /\ localStorage' =
                     [localStorage EXCEPT ![STORAGE_KEY] =
                        << [StoredSession(localStorage) EXCEPT
                              !.expiresAt = now + config.sessionTimeout] >>]
           ELSE /\ ~ret'.ok
                /\ localStorage'[STORAGE_KEY] \in {<<>>, localStorage[STORAGE_KEY]}
                /\ \A k \in {ATTEMPTS_KEY, LOCKOUT_KEY, DATA_KEY} :
                      localStorage'[k] = localStorage[k] ]_vars

-----------------------------------------------------------------------------
\* The time the stored session has left at instant t, read off the record:
\* expiresAt - t before expiresAt, 0 from expiresAt on and without a session.
TimeLeft(ls, t) ==
    IF HasStoredSession(ls) /\ t < StoredSession(ls).expiresAt
    THEN StoredSession(ls).expiresAt - t
    ELSE 0

\* C12 as stated: getSessionTimeRemaining() returns the time left, never a
\* negative number, 0 at or after expiresAt and without a session; and no step
\* other than extendSession() makes the time left grow, so that of two calls
\* with no extendSession() between them the later never returns more.
C12_NonIncreasing ==
    [][ /\ GetSessionTimeRemaining
           => /\ ret'.val = TimeLeft(localStorage, now)
              /\ ret'.val >= 0
        /\ ~ExtendSession
           => TimeLeft(localStorage', now') <= TimeLeft(localStorage, now) ]_vars

\* A step in which an authenticate call succeeds and stores a new session
LoginSucceeds ==
    \E i \in 1..Len(pending) :
        AuthenticateResolve(i) /\ pending[i] = CORRECT_PASSWORD

\* C12, amended: the same, over calls with neither an extendSession() nor a
\* successful authenticate() (which stores a new session) between them.
C12_NonIncreasingPerSession ==
    [][ /\ GetSessionTimeRemaining
           => /\ ret'.val = TimeLeft(localStorage, now)
              /\ ret'.val >= 0
        /\ (~ExtendSession /\ ~LoginSucceeds)
           => TimeLeft(localStorage', now') <= TimeLeft(localStorage, now) ]_vars

\* C12 witness: getSessionTimeRemaining() has returned 0 at the very instant
\* the stored session expires.
C12_Witness ==
    /\ ret = Ret("getSessionTimeRemaining", TRUE, MSG_NONE, 0)
    /\ HasStoredSession(localStorage)
    /\ now = StoredSession(localStorage).expiresAt

-----------------------------------------------------------------------------
\* C13: getLockoutInfo() on a lockout record with now < lockedUntil returns
\* isLockedOut = true with ceil((lockedUntil - now) / 60000) remaining minutes
\* and leaves the store as it was; on an expired lockout record it returns
\* isLockedOut = false and removes the lockout record and the attempt counter
\* (and nothing else); a failed authenticate that finds no counter stores 1.
C13_LockoutInfo ==
    [][ /\ (GetLockoutInfo /\ HasLockout(localStorage))
           => IF now < LockedUntil(localStorage)
              THEN /\ ret'.op = "getLockoutInfo"
                   /\ ret'.ok
                   /\ IsCeilOf(ret'.val, LockedUntil(localStorage) - now, 60000)
                   /\ localStorage' = localStorage
              ELSE /\ ret' = Ret("getLockoutInfo", FALSE, MSG_NONE, 0)
                   /\ localStorage' =
                        [localStorage EXCEPT ![LOCKOUT_KEY] = <<>>,
                                             ![ATTEMPTS_KEY] = <<>>]
        /\ \A i \in 1..Len(pending) :
              ( /\ AuthenticateResolve(i)
                /\ pending[i] # CORRECT_PASSWORD
                /\ localStorage[ATTEMPTS_KEY] = <<>> )
              => localStorage'[ATTEMPTS_KEY] = << <<"1">> >> ]_vars

\* C13 witness: getLockoutInfo() has reported an active lockout part-way
\* through a minute, the counter standing at 5.
C13_Witness ==
    /\ ret.op = "getLockoutInfo" /\ ret.ok
    /\ LockoutActive(localStorage, now)
    /\ (LockedUntil(localStorage) - now) % 60000 # 0
    /\ StoredAttempts(localStorage) = 5

-----------------------------------------------------------------------------
\* C14: logout(), in any state, returns normally, removes the session record
\* and nothing else (the attempt counter and the lockout record stay as they
\* were), leaves isAuthenticated() false, and changes nothing when there is
\* no session record, so that a second call has no further effect.
C14_LogoutIdempotent ==
    [][ Logout
        => /\ ret' = Ret("logout", FALSE, MSG_NONE, 0)
           /\ localStorage' = [localStorage EXCEPT ![STORAGE_KEY] = <<>>]
           /\ ~isAuthenticatedValue(localStorage', now')
           /\ ~HasStoredSession(localStorage) => localStorage' = localStorage
           /\ logoutStore(localStorage') = localStorage' ]_vars

\* C14 witness: logout() has returned with the account locked out: the
\* session record is gone, the counter and the lockout record are in place.
C14_Witness ==
    /\ ret.op = "logout"
    /\ ~HasStoredSession(localStorage)
    /\ StoredAttempts(localStorage) = 5
    /\ LockoutActive(localStorage, now)

-----------------------------------------------------------------------------
-----------------------------------------------------------------------------
\* A step in which the digest of a suspended authenticate call fails
DigestFails == \E i \in 1..Len(pending) : AuthenticateDigestThrows(i)

\* A step in which an authenticate call passes the lockout check and starts
\* the digest (which may then fail)
DigestStarts == \E p \in Passwords : AuthenticateBegin(p, 1)

\* C16 as stated: when the digest fails, authenticate resolves with success =
\* false and the technical-error message, and neither part of the call, the
\* one up to the digest or the one after its failure, changes the attempt
\* counter, the lockout record or the session record.
C16_DigestFailure ==
    [][ /\ DigestFails
           => /\ ret' = Ret("authenticate", FALSE, MSG_TECHNICAL, 0)
              /\ localStorage' = localStorage
        /\ DigestStarts => localStorage' = localStorage ]_vars

\* C16, amended: the same, except that the call's lockout check, made before
\* the digest, removes a lockout record that has expired together with the
\* attempt counter; the session record is never touched, no attempt is
\* consumed and no session is created.
C16_DigestFailureLazyUnlock ==
    [][ /\ DigestFails
           => /\ ret' = Ret("authenticate", FALSE, MSG_TECHNICAL, 0)
              /\ localStorage' = localStorage
        /\ DigestStarts
           => localStorage' =
                IF HasLockout(localStorage) /\ now >= LockedUntil(localStorage)
                THEN [localStorage EXCEPT ![LOCKOUT_KEY] = <<>>,
                                          ![ATTEMPTS_KEY] = <<>>]
                ELSE localStorage ]_vars

\* C16 witness: a digest has failed after two wrong passwords; the counter
\* still stands at 2 and there is no session.
C16_Witness ==
    /\ ret = Ret("authenticate", FALSE, MSG_TECHNICAL, 0)
    /\ StoredAttempts(localStorage) = 2
    /\ ~HasLockout(localStorage)
    /\ ~HasStoredSession(localStorage)

-----------------------------------------------------------------------------
-----------------------------------------------------------------------------
\* The defaults a load ends with, told from how each file's fetch settled:
\* the section of a failed fetch keeps its zero value, the section of a
\* fetch that succeeded is overlaid with the file, field by field for
\* profile, resume and config and whole for the three lists.
DefaultsFromFiles(outcomes) ==
    [top |-> "object",
     sec |-> [s \in Sections |->
        LET file == outcomes[SectionIndex(s)]
            zero == createDefaultPortfolioData.sec[s]
        IN IF file.status = "rejected" THEN zero
           ELSE IF s \in {"profile", "resume", "config"}
           THEN Spread(zero, file.value)
           ELSE file.value]]

\* C18: the six fetches of a loadContent settle independently, in any order;
\* the sections of failed fetches keep their zero values and those of the
\* fetches that succeeded are overlaid, each file on its own section whatever
\* the order of completion; nothing is cached or merged while fetches are
\* still out, and the local-edits record laid over the defaults is the one
\* in the store once all six have settled.
C18_FixedSlots ==
    [][ /\ LoadContentFinish(1)
           => LET defaults == DefaultsFromFiles(loads[1].outcomes)
                  local == loadLocalData(localStorage)
              IN /\ AllSettled(loads[1])
                 /\ cmRet'.err = NoErr
                 /\ cache' = << IF TruthyTop(local)
                                THEN mergePortfolioData(defaults, local[1])
                                ELSE defaults >>
                 /\ loads'[1].value = cache'
        /\ (\E i \in 1..FileCount : \E o \in FileOutcomes(i) : FetchSettles(1, i, o))
           => UNCHANGED <<cache, localStorage, cmRet>>
        /\ (loads # <<>> /\ ~AllSettled(loads[1])) => ~ENABLED LoadContentFinish(1)
      ]_vars

\* C18 witness: a load has resolved whose fetches settled in the reverse of
\* the order they were started in, the profile and certificates fetches
\* having failed, over a local-edits record saved while they were out.
C18_Witness ==
    /\ loads # <<>>
    /\ loads[1].value # <<>>
    /\ loads[1].order = <<6, 5, 4, 3, 2, 1>>
    /\ { i \in 1..FileCount : loads[1].outcomes[i] = Rejected } = {1, 4}
    /\ cmRet.op = "loadContent"
    /\ cmRet.before = <<stringify(EditedDoc)>>
    /\ cache = loads[1].value
    /\ cache[1].sec["projects"] = JArr(<<"p9">>)
    /\ <<"theme", "light">> \in cache[1].sec["config"].o

-----------------------------------------------------------------------------
\* A document with all six sections present and of the right type
WellTyped(doc) ==
    /\ doc.top = "object"
    /\ \A s \in {"projects", "certificates", "socialLinks"} : doc.sec[s].k = "array"
    /\ \A s \in {"profile", "resume", "config"} : doc.sec[s].k = "object"

\* C19: every document loadContent returns and caches has its six sections
\* present and of the right type (projects, certificates and socialLinks
\* arrays; profile, resume and config objects), however the fetches settled
\* and whatever parseable record the store held.
C19_LoadedWellTyped ==
    cmRet.op = "loadContent" => (cache # <<>> /\ WellTyped(cache[1]))

-----------------------------------------------------------------------------
\* The error importContent is to report for a string: the first violation in
\* the order no JSON, no object at the top, a missing section, a mistyped
\* section, the sections taken in the order of SectionNames.
FirstViolation(jsonData) ==
    LET value == jsonData.value
        missing == { i \in 1..Len(SectionNames) :
                        value.sec[SectionNames[i]].k = "absent" }
        IsList(i) == SectionNames[i] \in {"projects", "certificates", "socialLinks"}
        mistyped == { i \in 1..Len(SectionNames) :
                        value.sec[SectionNames[i]].k #
                            (IF IsList(i) THEN "array" ELSE "object") }
        Least(S) == CHOOSE i \in S : \A j \in S : i <= j
    IN IF ~jsonData.valid THEN Err(MSG_INVALID_JSON, "")
       ELSE IF value.top # "object" THEN Err(MSG_NOT_OBJECT, "")
       ELSE IF missing # {} THEN Err(MSG_MISSING, SectionNames[Least(missing)])
       ELSE IF mistyped # {}
            THEN Err(IF IsList(Least(mistyped)) THEN MSG_NOT_AN_ARRAY
                                                ELSE MSG_NOT_AN_OBJECT,
                     SectionNames[Least(mistyped)])
       ELSE NoErr

\* C20: importContent reports the first violation in a fixed order: a string
\* that is no JSON as "Invalid JSON data or structure"; else a top level that
\* is no object; else the first missing section, named, in the order profile,
\* projects, resume, certificates, socialLinks, config; else the first
\* mistyped section in that order, named, as "must be an array" or "must be
\* an object"; the validator's message is what the caller gets.
C20_FirstViolation ==
    cmRet.op = "importContent" => cmRet.err = FirstViolation(cmRet.text[1])

-----------------------------------------------------------------------------
\* C21: while the persistent store throws on reads or writes, no public
\* method of AuthService or ContentManager lets the store's exception out:
\* whatever a method returns or throws carries one of the service's own
\* fixed messages (or none), never the exception of the store.
C21_NoStoreException ==
    /\ ret.msg # STORE_EXCEPTION
    /\ cmRet.err.msg # STORE_EXCEPTION

\* The four methods the claim names: importContent, extendSession and
\* authenticate let the exception out, loadContent does not.
C21_ImportContent ==
    ~(cmRet.op = "importContent" /\ cmRet.err.msg = STORE_EXCEPTION)

C21_ExtendSession == ~(ret.op = "extendSession" /\ ret.msg = STORE_EXCEPTION)

C21_Authenticate == ~(ret.op = "authenticate" /\ ret.msg = STORE_EXCEPTION)

-----------------------------------------------------------------------------
\* C22: when two loadContent calls overlap neither is aborted: a call that
\* has not resolved can always take its next step (a fetch settling, or the
\* return), the step of one call leaves the other call as it is, and the
\* call that resolves returns a document and leaves it in the cache, so
\* that once both have resolved the cache holds the document of the call
\* that finished last.
LoadCanProceed(k) == ENABLED (NextFetchSettles(k) \/ LoadContentFinish(k))

C22_OverlappingLoads ==
    [][/\ \A k \in 1..Len(loads) : loads[k].value = <<>> => LoadCanProceed(k)
       /\ \A k \in 1..Len(loads) :
              (NextFetchSettles(k) \/ LoadContentFinish(k))
                  => \A j \in 1..Len(loads) : j # k => loads'[j] = loads[j]
       /\ \A k \in 1..Len(loads) :
              LoadContentFinish(k)
                  => /\ loads'[k].value # <<>>
                     /\ cache' = loads'[k].value]_vars

\* Both calls have resolved, with different documents; the call made first
\* resolved last and the cache holds its document.
C22_Witness ==
    /\ Len(loads) = 2
    /\ loads[1].value # <<>>
    /\ loads[2].value # <<>>
    /\ loads[1].value # loads[2].value
    /\ cmRet.op = "loadContent"
    /\ cmRet.settled = destructure(allSettled(loads[1].outcomes, loads[1].order))
    /\ cmRet.settled # destructure(allSettled(loads[2].outcomes, loads[2].order))
    /\ cache = loads[1].value

-----------------------------------------------------------------------------
\* C23: the cleanup timers are advisory.  (a) What isAuthenticated() and
\* getSessionTimeRemaining() return, now or at any later time, is the same
\* whether or not a timer tick has just fired; (b) once the session has
\* expired (now >= expiresAt) the next timer tick or query removes the
\* session record; (c) with the interval firing again and again, an expired
\* session is eventually deleted and the UI's authenticated flag eventually
\* becomes false.
TimerTick == SessionCleanup \/ UiTick

SessionQuery == IsAuthenticated \/ GetSessionTimeRemaining

SessionExpired(ls, t) ==
    /\ HasStoredSession(ls)
    /\ t >= StoredSession(ls).expiresAt

SameAnswers(ls1, ls2, t) ==
    /\ isAuthenticatedValue(ls1, t) = isAuthenticatedValue(ls2, t)
    /\ getSessionTimeRemainingValue(ls1, t) = getSessionTimeRemainingValue(ls2, t)

C23_TimersAdvisory ==
    [][TimerTick =>
           \A t \in TimePoints :
               t >= now => SameAnswers(localStorage', localStorage, t)]_vars

C23_ExpiredRemoved ==
    [][(SessionExpired(localStorage, now) /\ (TimerTick \/ SessionQuery))
           => ~HasStoredSession(localStorage')]_vars

C23_EventuallyDeleted ==
    /\ SessionExpired(localStorage, now) ~> ~SessionExpired(localStorage, now)
    /\ (ui.isAuthenticated /\ ~hasSession(localStorage, now))
           ~> ~ui.isAuthenticated

C23_Timers ==
    /\ C23_TimersAdvisory
    /\ C23_ExpiredRemoved
    /\ C23_EventuallyDeleted

\* (a) and (b) away from the instant now = expiresAt, at which getSession
\* still returns the session.
C23_TimersPastExpiry ==
    [][/\ (TimerTick /\ ~(HasStoredSession(localStorage)
                            /\ now = StoredSession(localStorage).expiresAt))
              => \A t \in TimePoints :
                     t >= now => SameAnswers(localStorage', localStorage, t)
       /\ (/\ HasStoredSession(localStorage)
           /\ now > StoredSession(localStorage).expiresAt
           /\ (TimerTick \/ SessionQuery))
              => ~HasStoredSession(localStorage')]_vars

-----------------------------------------------------------------------------
\* C24: edit mode requires authentication.  Across every sequence of login,
\* logout, session expiry and edit-mode toggle events in the application
\* shell, the edit-mode flag is true only while the user is authenticated:
\* it is not left on after a logout or an expiry, and a successful login
\* turns it on rather than off.
LoginSucceedsInShell ==
    /\ LoginResolve
    /\ ret'.ok

C24_EditModeRequiresAuth ==
    [][/\ ui'.isEditMode => ui'.isAuthenticated
       /\ LoginSucceedsInShell => ui'.isEditMode]_vars

\* The two halves of C24, each violated on its own.
C24_OnlyWhileAuthenticated == ui.isEditMode => ui.isAuthenticated

C24_LoginTurnsOn == [][LoginSucceedsInShell => ui'.isEditMode]_vars

\* While this page runs, the form of the login modal is hidden whenever the
\* store holds an active lockout.
ShellLockoutShown == isLockedOut(localStorage, now) => ui.isLockedOut

-----------------------------------------------------------------------------
\* C25: under sequential authenticate and getLockoutInfo calls and a fixed
\* configuration, the stored attempt counter is at most maxLoginAttempts;
\* whenever it equals maxLoginAttempts a lockout record is stored as well;
\* and the counter and the lockout record are cleared together: a step that
\* removes one of them leaves neither in the store.
CounterWithinLimit(ls, cfg) ==
    /\ StoredAttempts(ls) <= cfg.maxLoginAttempts
    /\ StoredAttempts(ls) = cfg.maxLoginAttempts => HasLockout(ls)

Removed(key) == localStorage[key] # <<>> /\ localStorage'[key] = <<>>

C25_CounterAndLockout ==
    [][/\ CounterWithinLimit(localStorage, config)
       /\ CounterWithinLimit(localStorage', config')
       /\ (Removed(ATTEMPTS_KEY) \/ Removed(LOCKOUT_KEY))
              => /\ localStorage'[ATTEMPTS_KEY] = <<>>
                 /\ localStorage'[LOCKOUT_KEY] = <<>>]_vars

\* The failed authenticate that brought the counter to maxLoginAttempts
\* has just returned, and the lockout record is stored beside the counter.
C25_Witness ==
    /\ ret.op = "authenticate"
    /\ ret.msg = MSG_LOCKED
    /\ StoredAttempts(localStorage) = config.maxLoginAttempts
    /\ HasLockout(localStorage)

-----------------------------------------------------------------------------
\* C26: the states Authenticated and LockedOut are mutually exclusive: in
\* every state reached by authenticate, logout, extendSession and the
\* passing of time, the store never holds a valid session and an active
\* lockout record at the same time.
SessionAndLockout(ls, t) == hasSession(ls, t) /\ LockoutActive(ls, t)

C26_MutuallyExclusive == ~SessionAndLockout(localStorage, now)

\* What the code does keep: a valid session and an active lockout come to
\* be stored together only by an authenticate call that fails while a
\* valid session is stored; no other step brings the two together.
FailsWhileAuthenticated ==
    /\ hasSession(localStorage, now)
    /\ \E i \in 1..Len(pending) : AuthenticateResolve(i)
    /\ ~ret'.ok

C26_ExclusiveUnlessFailedWhileAuthenticated ==
    [][(~SessionAndLockout(localStorage, now) /\ ~FailsWhileAuthenticated)
           => ~SessionAndLockout(localStorage', now')]_vars

\* A lockout is active and the session record beside it is one that has
\* expired.
C26_Witness ==
    /\ LockoutActive(localStorage, now)
    /\ HasStoredSession(localStorage)
    /\ ~hasSession(localStorage, now)

-----------------------------------------------------------------------------
\* C27: for every interleaving of overlapping authenticate calls, each
\* suspended only at the digest, the attempt counter never exceeds
\* maxLoginAttempts, and no call returns success or creates a session
\* while an unexpired lockout record is present in the store.
LoginWhileLockedOut ==
    /\ LockoutActive(localStorage, now)
    /\ \E i \in 1..Len(pending) : AuthenticateResolve(i)
    /\ ret'.ok \/ localStorage'[STORAGE_KEY] # localStorage[STORAGE_KEY]

C27_OverlappingAuthenticate ==
    [][/\ StoredAttempts(localStorage') <= config.maxLoginAttempts
       /\ ~LoginWhileLockedOut]_vars

\* The two halves of C27, each violated on its own.
C27_CounterWithinLimit == StoredAttempts(localStorage) <= config.maxLoginAttempts

C27_NoLoginWhileLockedOut == [][~LoginWhileLockedOut]_vars

-----------------------------------------------------------------------------
\* C28: saved edits survive a reload: for every complete document d,
\* saveContent(d) followed by loadContent() returns a document equal to d,
\* also when d's profile or config omits a field the defaults supply.
LoadAfterSave ==
    /\ cmRet.op = "saveContent"
    /\ cmRet.err = NoErr
    /\ cmRet'.op = "loadContent"

C28_SavedEditsSurvive == [][LoadAfterSave => cache' = cache]_vars

\* The fields of section s that d gives a value to
SavedFields(d, s) == StringifyVal(d.sec[s]).o

\* d's profile and config have every field the defaults have.
OmitsNoDefault(d, defaults) ==
    \A s \in {"profile", "config"} :
        Keys(defaults.sec[s].o) \subseteq Keys(SavedFields(d, s))

\* C28, amended: after saveContent(d), loadContent() returns d's projects,
\* resume, certificates and socialLinks as saved, and a profile and a
\* config that hold every field d gives a value to, with d's value, and
\* besides them only the fields of the defaults that d omits (or sets to
\* undefined), with the values of the defaults; the document returned
\* equals d when d's profile and config omit no field of the defaults.
C28_SavedFieldsSurvive ==
    [][LoadAfterSave =>
           LET d == cache[1]
               loaded == cache'[1]
               defaults == loadDefaultData(cmRet'.settled)
           IN /\ \A s \in Sections \ {"profile", "config"} :
                     loaded.sec[s] = d.sec[s]
              /\ \A s \in {"profile", "config"} :
                     /\ loaded.sec[s].k = "object"
                     /\ loaded.sec[s].o =
                            SavedFields(d, s) \cup
                            { pr \in defaults.sec[s].o :
                                pr[1] \notin Keys(SavedFields(d, s)) }
              /\ OmitsNoDefault(d, defaults) => loaded = parse(stringify(d))]_vars

\* A document that omits the config's analytics field was saved and loaded
\* again: the config returned has the analytics of the defaults.
C28_Witness ==
    /\ cmRet.op = "loadContent"
    /\ \E d \in SaveDocs :
           /\ cmRet.before = <<stringify(d)>>
           /\ "analytics" \notin Keys(SavedFields(d, "config"))
           /\ cache # <<d>>
           /\ <<"analytics", "{enabled: false}">> \in cache[1].sec["config"].o
           /\ \A s \in Sections \ {"config"} : cache[1].sec[s] = d.sec[s]

-----------------------------------------------------------------------------
\* C29: whatever saveContent or importContent calls run while a
\* resetToDefaults call is suspended on its fetches, when the call resolves
\* the portfolio_data key is absent, the document returned contains no
\* local edits, and the cache equals the document returned; and the cache,
\* once loaded, never becomes empty so that exportContent would fail.
ResetBegins == ResetToDefaultsBegin(1)

ResetResolves ==
    /\ cmRet'.op = "resetToDefaults"
    /\ \E k \in 1..Len(loads) :
           loads[k].op = "resetToDefaults" /\ LoadContentFinish(k)

C29_ResetDuringEdits ==
    [][/\ ResetResolves
           => /\ localStorage'[DATA_KEY] = <<>>
              /\ cache'[1] = loadDefaultData(cmRet'.settled)
              /\ cache' = loads'[1].value
       /\ cache # <<>> => exportContentError(cache') = NoErr]_vars

\* C29, amended: resetToDefaults removes the key and empties the cache when
\* it is called, so that exportContent fails until a call fills the cache
\* again; when it resolves the cache equals the document returned; the key
\* is absent and the document holds the defaults alone exactly when no
\* saveContent or importContent has written the key meanwhile, and
\* otherwise the key keeps the record written meanwhile and the document
\* returned is the defaults with that record merged over them.
C29_ResetThenLoad ==
    [][/\ ResetBegins
           => /\ localStorage'[DATA_KEY] = <<>>
              /\ exportContentError(cache') = Err(MSG_NOT_LOADED, "")
       /\ ResetResolves
           => /\ cache' = loads'[1].value
              /\ localStorage'[DATA_KEY] = localStorage[DATA_KEY]
              /\ cache'[1] = IF localStorage[DATA_KEY] = <<>>
                             THEN loadDefaultData(cmRet'.settled)
                             ELSE mergePortfolioData(
                                      loadDefaultData(cmRet'.settled),
                                      parse(localStorage[DATA_KEY][1]))]_vars

\* A resetToDefaults has resolved after a saveContent made meanwhile: the
\* key holds the saved record and the document returned holds its edits.
C29_Witness ==
    /\ cmRet.op = "resetToDefaults"
    /\ cmRet.before = <<stringify(EditedDoc)>>
    /\ localStorage[DATA_KEY] = <<stringify(EditedDoc)>>
    /\ cache = loads[1].value
    /\ cache[1] # loadDefaultData(cmRet.settled)
    /\ cache[1].sec["projects"] = EditedDoc.sec["projects"]

-----------------------------------------------------------------------------
\* C30: a failed importContent changes nothing: when the string does not
\* parse, fails the structural validation, or the write to the store
\* throws, the portfolio_data key and the cache keep exactly the values
\* they had before the call.
ImportFails ==
    /\ cmRet'.op = "importContent"
    /\ cmRet'.err # NoErr
    /\ \E t \in ImportTexts : ImportContent(t) \/ ImportContentStoreThrows(t)

C30_FailedImportChangesNothing ==
    [][ImportFails => /\ localStorage'[DATA_KEY] = localStorage[DATA_KEY]
                      /\ cache' = cache]_vars

\* An importContent of a valid document has just failed at the write to
\* the store, over a cache and a local-edits record that hold another
\* document.
C30_Witness ==
    /\ cmRet.op = "importContent"
    /\ cmRet.err.msg = STORE_EXCEPTION
    /\ cache # <<>>
    /\ cache # <<parse(cmRet.text[1])>>
    /\ localStorage[DATA_KEY] # <<>>
    /\ localStorage[DATA_KEY] # cmRet.text

====
